---- MODULE Spec2Model ----
(***************************************************************************)
(* A model of the workflow engine's executor:                              *)
(*   src/src/workflow_engine/execution/topological.py  (execute)           *)
(*   src/src/workflow_engine/core/node.py              (Node.__call__)     *)
(*   src/src/workflow_engine/core/workflow.py          (validators,        *)
(*                                     get_ready_nodes, get_output)        *)
(*   src/src/workflow_engine/core/context.py           (the hooks)         *)
(*   src/src/workflow_engine/core/edge.py              (Edge.from_nodes)   *)
(*   src/src/workflow_engine/core/value.py             (can_cast_to, the   *)
(*                                     caster registry, cast_to)           *)
(*   src/src/workflow_engine/files/json.py             (the JSON casters)  *)
(*   src/src/workflow_engine/contexts/local.py         (LocalContext)      *)
(*   src/workflow_engine/workflow.py                   (WorkflowExecutor)  *)
(*                                                                         *)
(* Spec runs execute; SpecCalls calls get_ready_nodes and get_output on    *)
(* arguments of the caller's choice; SpecConstruct assembles a definition  *)
(* and constructs a Workflow from it; SpecEdge calls Edge.from_nodes.      *)
(* SpecCancel runs execute with a cancellation at any await; SpecExpand    *)
(* calls expand_node and with_namespace; SpecRegistry registers and looks  *)
(* up casters; SpecCast calls cast_to; SpecWrite calls _idempotent_write;  *)
(* SpecSerialize dumps a workflow to JSON and validates it back.           *)
(* SpecNodeCall calls a node on inputs of the caller's choice; SpecGather  *)
(* runs two cast_to calls on one value under asyncio.gather; SpecExecutor  *)
(* loads definitions into a WorkflowExecutor and executes them; SpecLocal  *)
(* runs execute under a LocalContext, again and again on one run           *)
(* directory; SpecFair runs execute with every enabled step taken in time. *)
(*                                                                         *)
(* A mapping (a Python dict from keys to values) is a set of <<key,value>> *)
(* pairs with at most one pair per key.  An ordered dict whose order the   *)
(* code depends on (ready_nodes, popped with popitem) is a sequence.       *)
(***************************************************************************)
EXTENDS Integers, Sequences, FiniteSets, TLC

VARIABLES workflow, input, pc, node_outputs, ready_nodes, errors,
          cur, call, callResult, exc, output, result, hooks, failed, absorbed,
          startRet, endRet,
          casters, resolved_casters, value, cast_cache, caster_calls, context

\* The value classes' caster tables, the value being cast with its cache,
\* and the context the casters and the file writes go through.
values == <<casters, resolved_casters, value, cast_cache, caster_calls, context>>

vars == <<workflow, input, pc, node_outputs, ready_nodes, errors,
          cur, call, callResult, exc, output, result, hooks, failed, absorbed,
          startRet, endRet, values>>

(* ------------------------------ bounds -------------------------------- *)

MaxNodes == 2

MaxEdges == 2

MaxDefNodes == 3

MaxDefEdges == 2

\* The number of cast_to calls made on one value.
MaxCasts == 3

\* The number of _idempotent_write calls made on one context.
MaxWrites == 3

MaxGraphEdges == 2

MaxExecutes == 3

(* ----------------------------- mappings ------------------------------- *)

EMPTY == {}

Keys(m) == {p[1] : p \in m}

Get(m, k) == (CHOOSE p \in m : p[1] = k)[2]

Put(m, k, v) == {p \in m : p[1] # k} \cup {<<k, v>>}

Range(s) == {s[i] : i \in 1..Len(s)}

(* ------------------------- nodes and edges ---------------------------- *)

AllIds == <<"a", "b", "c", "d">>

\* A Value type: its origin class and, for a generic one, its argument.
IntegerValue == [origin |-> "IntegerValue", args |-> <<>>]

StringValue == [origin |-> "StringValue", args |-> <<>>]

JSONValue == [origin |-> "JSONValue", args |-> <<>>]

SequenceValue(item) == [origin |-> "SequenceValue", args |-> <<item>>]

\* The casters registered on a class itself, by the name of the target's
\* origin (register_cast_to, register_generic_cast_to).
OwnCasters(origin) ==
    CASE origin = "IntegerValue" -> {"FloatValue"}
      [] origin = "FloatValue" -> {"IntegerValue"}
      [] origin = "StringValue" -> {"BooleanValue", "IntegerValue", "FloatValue"}
      [] origin = "SequenceValue" -> {"SequenceValue"}
      [] origin = "StringMapValue" -> {"StringMapValue"}
      [] OTHER -> {}

\* The casters every class inherits from Value.
ValueCasters == {"StringValue", "JSONValue"}

\* Value.can_cast_to: a caster registered for the target's origin that does
\* not decline (the sequence caster declines when the items cannot be
\* cast), or else issubclass(cls, t).
RECURSIVE CanCastTo(_, _)
CanCastTo(s, t) ==
    \/ /\ t.origin \in OwnCasters(s.origin) \cup ValueCasters
       /\ IF t.origin \in OwnCasters(s.origin)
             /\ s.origin \in {"SequenceValue", "StringMapValue"}
          THEN CanCastTo(s.args[1], t.args[1])
          ELSE TRUE
    \/ s = t

\* The node classes of the model, by their fields: a field is
\* <<name, required, type>>.  The inputs are named x and y and the output o.
\*   Strict:          x required, y optional  ->  o required    (integers)
\*   Lenient:         x optional, y optional  ->  o optional    (integers)
\*   Factorization:   x integer               ->  o sequence of integers
\*   Sum:             x sequence of integers  ->  o integer
\*   ReadJSONLines:   x string                ->  o sequence of JSON
\*   WriteJSONLines:  x sequence of JSON      ->  o string
\*   Sink:            x optional              ->  no output (Empty)
NodeTypes ==
    {"Strict", "Lenient", "Factorization", "Sum", "ReadJSONLines", "WriteJSONLines"}

\* Node.input_fields: get_data_fields(self.input_type).
InputFields(node) ==
    CASE node.type = "Strict" -> {<<"x", TRUE, IntegerValue>>, <<"y", FALSE, IntegerValue>>}
      [] node.type = "Lenient" -> {<<"x", FALSE, IntegerValue>>, <<"y", FALSE, IntegerValue>>}
      [] node.type = "Factorization" -> {<<"x", TRUE, IntegerValue>>}
      [] node.type = "Sum" -> {<<"x", TRUE, SequenceValue(IntegerValue)>>}
      [] node.type = "ReadJSONLines" -> {<<"x", TRUE, StringValue>>}
      [] node.type = "WriteJSONLines" -> {<<"x", TRUE, SequenceValue(JSONValue)>>}
      [] node.type = "Sink" -> {<<"x", FALSE, IntegerValue>>}

\* Node.output_fields: get_data_fields(self.output_type).
OutputFields(node) ==
    CASE node.type = "Strict" -> {<<"o", TRUE, IntegerValue>>}
      [] node.type = "Lenient" -> {<<"o", FALSE, IntegerValue>>}
      [] node.type = "Factorization" -> {<<"o", TRUE, SequenceValue(IntegerValue)>>}
      [] node.type = "Sum" -> {<<"o", TRUE, IntegerValue>>}
      [] node.type = "ReadJSONLines" -> {<<"o", TRUE, SequenceValue(JSONValue)>>}
      [] node.type = "WriteJSONLines" -> {<<"o", TRUE, StringValue>>}
      [] node.type = "Sink" -> {}

\* fields[key]: the field a table holds under a name.
FieldOf(fields, key) == CHOOSE f \in fields : f[1] = key

Edge(s, sk, t, tk) == [source_id |-> s, source_key |-> sk, target_id |-> t, target_key |-> tk]

InputEdge(ik, t, tk) == [input_key |-> ik, target_id |-> t, target_key |-> tk]

OutputEdge(s, sk, ok) == [source_id |-> s, source_key |-> sk, output_key |-> ok]

IsInputEdge(edge) == "input_key" \in DOMAIN edge

NodeIds(w) == {w.nodes[i].id : i \in 1..Len(w.nodes)}

(* ----------------------------- exceptions ----------------------------- *)

Exception(type, node, cause) == [type |-> type, node |-> node, cause |-> cause]

NoException == Exception("", "", "")

(* --------------------- Workflow: derived indices ---------------------- *)

\* Workflow.nodes_by_id raises ValueError on a repeated node id.
NodesByIdOk(w) ==
    \A i, j \in 1..Len(w.nodes) : w.nodes[i].id = w.nodes[j].id => i = j

\* chain(self.edges, self.input_edges)
ChainEdges(w) == w.edges \o w.input_edges

\* Workflow.edges_by_target raises on a second edge into one (node, key)
\* (and with KeyError on an edge into a node the workflow does not have).
EdgesByTargetOk(w) ==
    LET ch == ChainEdges(w) IN
    /\ \A i \in 1..Len(ch) : ch[i].target_id \in NodeIds(w)
    /\ \A i, j \in 1..Len(ch) :
          (ch[i].target_id = ch[j].target_id /\ ch[i].target_key = ch[j].target_key)
             => i = j

\* edges_by_target[id].items(): the in-edges of a node, in insertion order.
EdgesByTarget(w, id) == SelectSeq(ChainEdges(w), LAMBDA e : e.target_id = id)

NodeById(w, id) == CHOOSE n \in Range(w.nodes) : n.id = id

(* ------------------------ Workflow: validators ------------------------ *)

\* A variant of ValidateNodes that builds the index of in-edges but does
\* not look the required fields up in it.
ValidateNodes_BuildsIndexOnly(w) ==
    (\E n \in Range(w.nodes) : \E f \in InputFields(n) : f[2]) => EdgesByTargetOk(w)

\* _validate_nodes.  "required and key not in self.edges_by_target[...]":
\* the cached property edges_by_target is computed, and its uniqueness
\* check made, when the first required field is met, and not otherwise.
ValidateNodes(w) ==
    (\E n \in Range(w.nodes) : \E f \in InputFields(n) : f[2]) =>
        /\ EdgesByTargetOk(w)
        /\ \A n \in Range(w.nodes) : \A f \in InputFields(n) :
              f[2] => \E e \in Range(EdgesByTarget(w, n.id)) : e.target_key = f[1]

\* Edge.validate_types: "" when it returns, else the exception it raises.
\* The required flags of the two fields are read and dropped.
ValidateTypesError(edge, source, target) ==
    IF edge.source_key \notin Keys(OutputFields(source)) THEN "ValueError"
    ELSE IF edge.target_key \notin Keys(InputFields(target)) THEN "ValueError"
    ELSE IF ~CanCastTo(FieldOf(OutputFields(source), edge.source_key)[3],
                       FieldOf(InputFields(target), edge.target_key)[3])
    THEN "TypeError"
    ELSE ""

ValidateTypes(edge, source, target) == ValidateTypesError(edge, source, target) = ""

\* _validate_edges.  nodes_by_id, a cached property too, is computed (and
\* its check for a repeated id made) only when there is an edge to look at.
ValidateEdges(w) ==
    w.edges # <<>> =>
        /\ NodesByIdOk(w)
        /\ \A e \in Range(w.edges) :
              /\ e.source_id \in NodeIds(w)
              /\ e.target_id \in NodeIds(w)
              /\ ValidateTypes(e, NodeById(w, e.source_id), NodeById(w, e.target_id))

\* The nodes reachable from the nodes of S in at most k steps of w.edges.
RECURSIVE Descendants(_, _, _)
Descendants(w, S, k) ==
    IF k = 0 THEN S
    ELSE LET T == S \cup {e.target_id : e \in {x \in Range(w.edges) : x.source_id \in S}}
         IN  Descendants(w, T, k - 1)

Successors(w, id) == {e.target_id : e \in {x \in Range(w.edges) : x.source_id = id}}

\* A variant of ValidateDag that looks for self-loops only.
ValidateDag_SelfLoopsOnly(w) ==
    \A id \in NodeIds(w) : id \notin Successors(w, id)

\* A variant of ValidateDag that follows the edges between different nodes
\* only, and so misses an edge from a node to itself.
ValidateDag_MissesSelfLoops(w) ==
    \A id \in NodeIds(w) :
        id \notin Descendants(w, Successors(w, id) \ {id}, Len(w.nodes))

\* nx.is_directed_acyclic_graph(self.nx_graph)
ValidateDag(w) ==
    \A id \in NodeIds(w) : id \notin Descendants(w, Successors(w, id), Len(w.nodes))

\* f"{namespace}/{id}"
Namespaced(namespace, id) == namespace \o "/" \o id

\* The node ids written out in definitions, each with its characters.
WrittenIds ==
    { <<"a", <<"a">> >>, <<"b", <<"b">> >>, <<"c", <<"c">> >>, <<"d", <<"d">> >>,
      <<"a-b", <<"a", "-", "b">> >>, <<"a/b", <<"a", "/", "b">> >> }

\* Those ids and the ids that namespacing makes of them.
IdTable ==
    WrittenIds
    \cup { <<Namespaced(n[1], x[1]), n[2] \o <<"/">> \o x[2]>> : n \in WrittenIds, x \in WrittenIds }

\* The characters of a node id.
Chars(id) == (CHOOSE p \in IdTable : p[1] = id)[2]

\* ord(c)
Ord(c) ==
    CASE c = "-" -> 45
      [] c = "/" -> 47
      [] c = "a" -> 97
      [] c = "b" -> 98
      [] c = "c" -> 99
      [] c = "d" -> 100

\* s < t for two strings: by code point, a proper prefix first.
RECURSIVE CharsLess(_, _)
CharsLess(s, t) ==
    IF t = <<>> THEN FALSE
    ELSE IF s = <<>> THEN TRUE
    ELSE IF Ord(Head(s)) # Ord(Head(t)) THEN Ord(Head(s)) < Ord(Head(t))
    ELSE CharsLess(Tail(s), Tail(t))

\* sorted(node_ids), by insertion.
RECURSIVE Insert(_, _)
Insert(sorted, id) ==
    IF sorted = <<>> THEN <<id>>
    ELSE IF CharsLess(Chars(id), Chars(Head(sorted))) THEN <<id>> \o sorted
    ELSE <<Head(sorted)>> \o Insert(Tail(sorted), id)

RECURSIVE Sorted(_)
Sorted(ids) ==
    IF ids = <<>> THEN <<>> ELSE Insert(Sorted(SubSeq(ids, 1, Len(ids) - 1)), ids[Len(ids)])

\* next_id.startswith(current + "/")
StartsWithSlash(next_id, current) ==
    LET n == Chars(next_id)
        c == Chars(current) \o <<"/">>
    IN  Len(n) >= Len(c) /\ SubSeq(n, 1, Len(c)) = c

\* _validate_no_id_prefix_collisions: each id of the sorted list is compared
\* with the one that follows it.
ValidateNoIdPrefixCollisions(w) ==
    LET sorted_ids == Sorted([i \in 1..Len(w.nodes) |-> w.nodes[i].id]) IN
    \A i \in 1..(Len(sorted_ids) - 1) : ~StartsWithSlash(sorted_ids[i + 1], sorted_ids[i])

\* The model validators of Workflow, in the order they run, all of which a
\* constructed Workflow has passed.
ValidWorkflow(w) ==
    /\ ValidateNodes(w)
    /\ ValidateEdges(w)
    /\ ValidateDag(w)
    /\ ValidateNoIdPrefixCollisions(w)

(* ------------------ with_namespace and expand_node -------------------- *)

\* A variant of WithNamespace that leaves the output edges as they are.
WithNamespace_KeepsOutputEdges(w, namespace) ==
    [nodes |-> [i \in 1..Len(w.nodes) |->
                   [w.nodes[i] EXCEPT !.id = Namespaced(namespace, @)]],
     edges |-> [i \in 1..Len(w.edges) |->
                   [w.edges[i] EXCEPT !.source_id = Namespaced(namespace, @),
                                      !.target_id = Namespaced(namespace, @)]],
     input_edges |-> [i \in 1..Len(w.input_edges) |->
                   [w.input_edges[i] EXCEPT !.target_id = Namespaced(namespace, @)]],
     output_edges |-> w.output_edges]

\* Workflow.with_namespace, the four lists it hands to Workflow(...):
\* node.with_namespace and edge.model_copy(update=...) change the ids only.
WithNamespace(w, namespace) ==
    [nodes |-> [i \in 1..Len(w.nodes) |->
                   [w.nodes[i] EXCEPT !.id = Namespaced(namespace, @)]],
     edges |-> [i \in 1..Len(w.edges) |->
                   [w.edges[i] EXCEPT !.source_id = Namespaced(namespace, @),
                                      !.target_id = Namespaced(namespace, @)]],
     input_edges |-> [i \in 1..Len(w.input_edges) |->
                   [w.input_edges[i] EXCEPT !.target_id = Namespaced(namespace, @)]],
     output_edges |-> [i \in 1..Len(w.output_edges) |->
                   [w.output_edges[i] EXCEPT !.source_id = Namespaced(namespace, @)]]]

\* input_edges_by_key / output_edges_by_key: a dict comprehension over the
\* edges, so of two edges with one key the later one stays.
HasKey(es, field, key) == \E i \in 1..Len(es) : es[i][field] = key

ByKey(es, field, key) ==
    es[CHOOSE i \in 1..Len(es) :
          /\ es[i][field] = key
          /\ \A j \in (i + 1)..Len(es) : es[j][field] # key]

\* "for input_edge in self.input_edges": an input edge into the node is
\* re-pointed at the subgraph's input edge of that key, or dropped.
RECURSIVE SpliceInputEdges(_, _, _, _)
SpliceInputEdges(es, i, node_id, sub) ==
    IF i > Len(es) THEN <<>>
    ELSE LET e == es[i]
             rest == SpliceInputEdges(es, i + 1, node_id, sub)
         IN  IF e.target_id # node_id THEN <<e>> \o rest
             ELSE IF HasKey(sub.input_edges, "input_key", e.target_key)
             THEN LET se == ByKey(sub.input_edges, "input_key", e.target_key)
                  IN  <<InputEdge(e.input_key, se.target_id, se.target_key)>> \o rest
             ELSE rest

\* A variant of SpliceEdges that drops an edge leaving the node at a key
\* the subgraph does not output, as it drops an edge into the node.
RECURSIVE SpliceEdges_DropsUnmatched(_, _, _, _, _)
SpliceEdges_DropsUnmatched(es, i, node_id, sub, acc) ==
    IF i > Len(es) \/ acc.raised THEN acc
    ELSE LET e == es[i] IN
         IF e.target_id = node_id
         THEN IF HasKey(sub.input_edges, "input_key", e.target_key)
              THEN LET se == ByKey(sub.input_edges, "input_key", e.target_key)
                   IN  SpliceEdges_DropsUnmatched(es, i + 1, node_id, sub,
                         [acc EXCEPT !.edges = Append(@,
                            Edge(e.source_id, e.source_key, se.target_id, se.target_key))])
              ELSE SpliceEdges_DropsUnmatched(es, i + 1, node_id, sub, acc)
         ELSE IF e.source_id = node_id
         THEN IF HasKey(sub.output_edges, "output_key", e.source_key)
              THEN LET se == ByKey(sub.output_edges, "output_key", e.source_key)
                   IN  SpliceEdges_DropsUnmatched(es, i + 1, node_id, sub,
                         [acc EXCEPT !.edges = Append(@,
                            Edge(se.source_id, se.source_key, e.target_id, e.target_key))])
              ELSE SpliceEdges_DropsUnmatched(es, i + 1, node_id, sub, acc)
         ELSE SpliceEdges_DropsUnmatched(es, i + 1, node_id, sub,
                [acc EXCEPT !.edges = Append(@, e)])

\* "for edge in self.edges": an edge into the node is re-pointed or dropped;
\* an edge out of the node is re-pointed at the source of the subgraph's
\* output edge of that key, and raises ValueError when there is none.
RECURSIVE SpliceEdges(_, _, _, _, _)
SpliceEdges(es, i, node_id, sub, acc) ==
    IF i > Len(es) \/ acc.raised THEN acc
    ELSE LET e == es[i] IN
         IF e.target_id = node_id
         THEN IF HasKey(sub.input_edges, "input_key", e.target_key)
              THEN LET se == ByKey(sub.input_edges, "input_key", e.target_key)
                   IN  SpliceEdges(es, i + 1, node_id, sub,
                         [acc EXCEPT !.edges = Append(@,
                            Edge(e.source_id, e.source_key, se.target_id, se.target_key))])
              ELSE SpliceEdges(es, i + 1, node_id, sub, acc)
         ELSE IF e.source_id = node_id
         THEN IF HasKey(sub.output_edges, "output_key", e.source_key)
              THEN LET se == ByKey(sub.output_edges, "output_key", e.source_key)
                   IN  SpliceEdges(es, i + 1, node_id, sub,
                         [acc EXCEPT !.edges = Append(@,
                            Edge(se.source_id, se.source_key, e.target_id, e.target_key))])
              ELSE [acc EXCEPT !.raised = TRUE]
         ELSE SpliceEdges(es, i + 1, node_id, sub, [acc EXCEPT !.edges = Append(@, e)])

\* "for output_edge in self.output_edges": likewise for the output edges.
RECURSIVE SpliceOutputEdges(_, _, _, _, _)
SpliceOutputEdges(es, i, node_id, sub, acc) ==
    IF i > Len(es) \/ acc.raised THEN acc
    ELSE LET e == es[i] IN
         IF e.source_id # node_id
         THEN SpliceOutputEdges(es, i + 1, node_id, sub, [acc EXCEPT !.edges = Append(@, e)])
         ELSE IF HasKey(sub.output_edges, "output_key", e.source_key)
         THEN LET se == ByKey(sub.output_edges, "output_key", e.source_key)
              IN  SpliceOutputEdges(es, i + 1, node_id, sub,
                    [acc EXCEPT !.edges = Append(@,
                       OutputEdge(se.source_id, se.source_key, e.output_key))])
         ELSE [acc EXCEPT !.raised = TRUE]

NoWorkflow == [nodes |-> <<>>, edges |-> <<>>, input_edges |-> <<>>, output_edges |-> <<>>]

\* What a call that may raise gives back.
Raise(type, node) == [raised |-> TRUE, workflow |-> NoWorkflow, exc |-> Exception(type, node, "")]

Return(w) == [raised |-> FALSE, workflow |-> w, exc |-> NoException]

\* Workflow.with_namespace: the lists go through Workflow(...), whose
\* validators run on them.
CallWithNamespace(w, namespace) ==
    LET n == WithNamespace(w, namespace) IN
    IF ValidWorkflow(n) THEN Return(n) ELSE Raise("ValidationError", "")

\* raise NodeExpansionException(node_id, workflow=subgraph): the error that
\* names the node whose expansion failed.
NodeExpansionException(node_id) == Raise("NodeExpansionException", node_id)

\* Workflow.expand_node: whatever is raised inside the try block leaves as
\* NodeExpansionException(node_id).
ExpandNode(w, node_id, subgraph) ==
    IF ~NodesByIdOk(w) \/ node_id \notin NodeIds(w)
    THEN NodeExpansionException(node_id)
    ELSE LET ns == CallWithNamespace(subgraph, node_id) IN
         IF ns.raised THEN NodeExpansionException(node_id)
         ELSE LET sub == ns.workflow
                  new_nodes == SelectSeq(w.nodes, LAMBDA n : n.id # node_id) \o sub.nodes
                  new_input_edges == SpliceInputEdges(w.input_edges, 1, node_id, sub)
                  new_edges == SpliceEdges(w.edges, 1, node_id, sub,
                                           [raised |-> FALSE, edges |-> sub.edges])
                  new_output_edges == SpliceOutputEdges(w.output_edges, 1, node_id, sub,
                                                        [raised |-> FALSE, edges |-> <<>>])
                  new == [nodes |-> new_nodes, edges |-> new_edges.edges,
                          input_edges |-> new_input_edges,
                          output_edges |-> new_output_edges.edges]
              IN  IF new_edges.raised \/ new_output_edges.raised \/ ~ValidWorkflow(new)
                  THEN NodeExpansionException(node_id)
                  ELSE Return(new)

(* ----------------------- node outputs (a dict) ------------------------ *)

\* node_outputs is a dict from node id to the value node(...) returned: a
\* DataMapping, or the Workflow object a node's run returned.  NotRun
\* marks an id that is not a key of the dict.
NotRun == [kind |-> "none", map |-> EMPTY]

MapOutput(m) == [kind |-> "map", map |-> m]

WorkflowOutput == [kind |-> "workflow", map |-> EMPTY]

Finished(outs) == {id \in DOMAIN outs : outs[id].kind # "none"}

(* -------------------- Workflow.get_ready_nodes ------------------------ *)

\* A variant of NodeInputDict that skips an internal edge whose source has
\* not finished instead of declaring the node not ready.
RECURSIVE NodeInputDict_SkipsUnfinished(_, _, _, _, _)
NodeInputDict_SkipsUnfinished(es, i, inp, outs, acc) ==
    IF i > Len(es) \/ acc.status # "ok" THEN acc
    ELSE LET edge == es[i] IN
         IF IsInputEdge(edge)
         THEN IF edge.input_key \in Keys(inp)
              THEN NodeInputDict_SkipsUnfinished(es, i + 1, inp, outs,
                     [acc EXCEPT !.dict = Put(@, edge.target_key, Get(inp, edge.input_key))])
              ELSE [acc EXCEPT !.status = "raise",
                               !.exc = Exception("KeyError", "", edge.input_key)]
         ELSE IF edge.source_id \in Finished(outs)
              THEN LET o == outs[edge.source_id] IN
                   IF o.kind = "workflow"
                   THEN [acc EXCEPT !.status = "raise",
                                    !.exc = Exception("TypeError", "", edge.source_id)]
                   ELSE IF edge.source_key \in Keys(o.map)
                   THEN NodeInputDict_SkipsUnfinished(es, i + 1, inp, outs,
                          [acc EXCEPT !.dict = Put(@, edge.target_key, Get(o.map, edge.source_key))])
                   ELSE [acc EXCEPT !.status = "raise",
                                    !.exc = Exception("KeyError", "", edge.source_key)]
              ELSE NodeInputDict_SkipsUnfinished(es, i + 1, inp, outs, acc)

\* The loop over edges_by_target[node.id].items(): acc.status is "ok" while
\* every edge so far had its value, "notready" after the break, "raise"
\* when a subscript raised (input[edge.input_key] or
\* node_outputs[source_id][source_key]).
RECURSIVE NodeInputDict(_, _, _, _, _)
NodeInputDict(es, i, inp, outs, acc) ==
    IF i > Len(es) \/ acc.status # "ok" THEN acc
    ELSE LET edge == es[i] IN
         IF IsInputEdge(edge)
         THEN IF edge.input_key \in Keys(inp)
              THEN NodeInputDict(es, i + 1, inp, outs,
                     [acc EXCEPT !.dict = Put(@, edge.target_key, Get(inp, edge.input_key))])
              ELSE [acc EXCEPT !.status = "raise",
                               !.exc = Exception("KeyError", "", edge.input_key)]
         ELSE IF edge.source_id \in Finished(outs)
              THEN LET o == outs[edge.source_id] IN
                   IF o.kind = "workflow"
                   THEN [acc EXCEPT !.status = "raise",
                                    !.exc = Exception("TypeError", "", edge.source_id)]
                   ELSE IF edge.source_key \in Keys(o.map)
                   THEN NodeInputDict(es, i + 1, inp, outs,
                          [acc EXCEPT !.dict = Put(@, edge.target_key, Get(o.map, edge.source_key))])
                   ELSE [acc EXCEPT !.status = "raise",
                                    !.exc = Exception("KeyError", "", edge.source_key)]
              ELSE [acc EXCEPT !.status = "notready"]

ReadyIds(ready) == {ready[i].id : i \in 1..Len(ready)}

\* A variant of ReadyLoop without the "if node.id in node_outputs" branch: a
\* finished node is examined like any other.
RECURSIVE ReadyLoop_ExaminesFinished(_, _, _, _, _)
ReadyLoop_ExaminesFinished(w, inp, outs, i, acc) ==
    IF i > Len(w.nodes) \/ acc.raised THEN acc
    ELSE LET node == w.nodes[i] IN
         IF node.id \in ReadyIds(acc.ready)
         THEN ReadyLoop_ExaminesFinished(w, inp, outs, i + 1, acc)
         ELSE LET d == NodeInputDict(EdgesByTarget(w, node.id), 1, inp, outs,
                          [status |-> "ok", dict |-> EMPTY, exc |-> NoException])
              IN  IF d.status = "raise"
                  THEN [acc EXCEPT !.raised = TRUE, !.exc = d.exc]
                  ELSE IF d.status = "notready"
                  THEN ReadyLoop_ExaminesFinished(w, inp, outs, i + 1, acc)
                  ELSE ReadyLoop_ExaminesFinished(w, inp, outs, i + 1,
                         [acc EXCEPT !.ready = Append(@, [id |-> node.id, input |-> d.dict])])

\* The loop over self.nodes, from node i on; acc.ready is the ordered dict
\* ready_nodes.
RECURSIVE ReadyLoop(_, _, _, _, _)
ReadyLoop(w, inp, outs, i, acc) ==
    IF i > Len(w.nodes) \/ acc.raised THEN acc
    ELSE LET node == w.nodes[i] IN
         IF node.id \in Finished(outs)
         THEN ReadyLoop(w, inp, outs, i + 1,
                [acc EXCEPT !.ready = SelectSeq(@, LAMBDA r : r.id # node.id)])
         ELSE IF node.id \in ReadyIds(acc.ready)
         THEN ReadyLoop(w, inp, outs, i + 1, acc)
         ELSE LET d == NodeInputDict(EdgesByTarget(w, node.id), 1, inp, outs,
                          [status |-> "ok", dict |-> EMPTY, exc |-> NoException])
              IN  IF d.status = "raise"
                  THEN [acc EXCEPT !.raised = TRUE, !.exc = d.exc]
                  ELSE IF d.status = "notready"
                  THEN ReadyLoop(w, inp, outs, i + 1, acc)
                  ELSE ReadyLoop(w, inp, outs, i + 1,
                         [acc EXCEPT !.ready = Append(@, [id |-> node.id, input |-> d.dict])])

GetReadyNodes(w, inp, outs, partial_results) ==
    ReadyLoop(w, inp, outs, 1,
              [raised |-> FALSE, ready |-> partial_results, exc |-> NoException])

(* ------------------------ Workflow.get_output ------------------------- *)

\* A variant of OutputLoop whose partial mode stops at the first output
\* edge it cannot resolve instead of going on to the next one.
RECURSIVE OutputLoop_StopsAtMissing(_, _, _, _, _)
OutputLoop_StopsAtMissing(w, outs, partial, i, acc) ==
    IF i > Len(w.output_edges) \/ acc.raised THEN acc
    ELSE LET edge == w.output_edges[i] IN
         IF edge.source_id \notin Finished(outs)
            \/ edge.source_key \notin Keys(outs[edge.source_id].map)
         THEN IF partial
              THEN acc
              ELSE [acc EXCEPT !.raised = TRUE,
                               !.exc = Exception("UserException", "", "get_output")]
         ELSE OutputLoop_StopsAtMissing(w, outs, partial, i + 1,
                [acc EXCEPT !.output = Put(@, edge.output_key,
                                           Get(outs[edge.source_id].map, edge.source_key))])

\* "source_key not in node_output" is true of a Workflow object too: it
\* iterates as (field, value) pairs, none of which equals a key.
RECURSIVE OutputLoop(_, _, _, _, _)
OutputLoop(w, outs, partial, i, acc) ==
    IF i > Len(w.output_edges) \/ acc.raised THEN acc
    ELSE LET edge == w.output_edges[i] IN
         IF edge.source_id \notin Finished(outs)
            \/ edge.source_key \notin Keys(outs[edge.source_id].map)
         THEN IF partial
              THEN OutputLoop(w, outs, partial, i + 1, acc)
              ELSE [acc EXCEPT !.raised = TRUE,
                               !.exc = Exception("UserException", "", "get_output")]
         ELSE OutputLoop(w, outs, partial, i + 1,
                [acc EXCEPT !.output = Put(@, edge.output_key,
                                           Get(outs[edge.source_id].map, edge.source_key))])

GetOutput(w, outs, partial) ==
    OutputLoop(w, outs, partial, 1,
               [raised |-> FALSE, output |-> EMPTY, exc |-> NoException])

(* --------------------------- WorkflowErrors --------------------------- *)

\* WorkflowErrors(): workflow_errors is a list of messages, node_errors a
\* mapping from node id to a list of messages.
NoErrors == [workflow_errors |-> <<>>, node_errors |-> EMPTY]

\* WorkflowErrors.add: a NodeException is filed under its node id, with the
\* message of its cause; any other exception is a workflow error.
AddError(errs, e) ==
    IF e.type = "NodeException"
    THEN LET old == IF e.node \in Keys(errs.node_errors)
                    THEN Get(errs.node_errors, e.node) ELSE <<>>
         IN  [errs EXCEPT !.node_errors = Put(@, e.node, Append(old, e.cause))]
    ELSE [errs EXCEPT !.workflow_errors = Append(@, e.type)]

\* WorkflowErrors.any
AnyErrors(errs) == Len(errs.workflow_errors) > 0 \/ errs.node_errors # EMPTY

(* ------------------- values, inputs and hook returns ------------------ *)

Value(origin, id, key) == <<origin, id, key>>

InputKeys == {"p"}

FullInput == {<<k, Value("input", "", k)>> : k \in InputKeys}

\* What run returns when it returns a Data object: output_obj.to_dict()
\* holds every declared output field.
RunOutput(node) == {<<f[1], Value("run", node.id, f[1])>> : f \in OutputFields(node)}

\* The mappings a context hook may hand back as a node's output: one that
\* holds every output field of the node, and one that holds none.
HookMaps(node) ==
    { {<<f[1], Value("context", node.id, f[1])>> : f \in OutputFields(node)}, EMPTY }

OutputKey(id) == "out_" \o id

\* The (errors, output) pairs on_workflow_start may know already.
MemoResults ==
    { [errors |-> NoErrors, output |-> {<<OutputKey("a"), Value("memo", "a", "o")>>}],
      [errors |-> AddError(NoErrors, Exception("NodeException", "a", "memo")),
       output |-> EMPTY] }

\* What on_workflow_error may return instead of its arguments.
AltErrorResult == [errors |-> NoErrors, output |-> EMPTY]

\* What on_workflow_finish may return instead of its argument.
AltOutput == {<<OutputKey("a"), Value("context", "a", "o")>>}

(* ------------------------- the workflows run -------------------------- *)

RECURSIVE SetToSeq(_)
SetToSeq(S) ==
    IF S = {} THEN <<>>
    ELSE LET x == CHOOSE y \in S : TRUE IN <<x>> \o SetToSeq(S \ {x})

NodesUpTo(n) == [i \in 1..n |-> [id |-> AllIds[i], type |-> "Strict"]]

IdsUpTo(n) == {AllIds[i] : i \in 1..n}

CandidateEdges(n) ==
    {Edge(s, "o", t, k) : s \in IdsUpTo(n), t \in IdsUpTo(n), k \in {"x", "y"}}

\* External input feeds the required field of a node; the optional field
\* is fed by other nodes, if at all.
CandidateInputEdges(n) ==
    {InputEdge(ik, t, "x") : ik \in InputKeys, t \in IdsUpTo(n)}

CandidateOutputEdges(n) == {OutputEdge(s, "o", OutputKey(s)) : s \in IdsUpTo(n)}

\* Every definition of at most MaxNodes nodes and at most MaxEdges internal
\* edges that passes the validators of Workflow.
Workflows ==
    { w \in UNION { [nodes : {NodesUpTo(n)},
                     edges : {SetToSeq(E) : E \in {F \in SUBSET CandidateEdges(n) :
                                                       Cardinality(F) <= MaxEdges}},
                     input_edges : {SetToSeq(E) : E \in SUBSET CandidateInputEdges(n)},
                     output_edges : {SetToSeq(E) : E \in SUBSET CandidateOutputEdges(n)}]
                    : n \in 1..MaxNodes } :
        ValidWorkflow(w) }

(* ------------------------------- state -------------------------------- *)

\* No value class is in use: no caster table, no value, no file.
NoValues ==
    /\ casters = <<>>
    /\ resolved_casters = <<>>
    /\ value = <<>>
    /\ cast_cache = <<>>
    /\ caster_calls = 0
    /\ context = <<>>


NoCall == [start |-> 0, memo |-> FALSE, cast |-> 0, run |-> 0, finish |-> 0, error |-> 0]

NoCur == [id |-> "", input |-> EMPTY]

NoHooks == [on_workflow_start |-> 0, on_workflow_finish |-> 0, on_workflow_error |-> 0,
            on_node_start |-> 0, run |-> 0, on_node_finish |-> 0, on_node_error |-> 0]

NoResult == [errors |-> NoErrors, output |-> EMPTY]

Unset == [kind |-> "unset", pair |-> NoResult]

Returned(kind, pair) == [kind |-> kind, pair |-> pair]

Init ==
    /\ workflow \in Workflows
    /\ input \in {FullInput, EMPTY}
    /\ pc = "on_workflow_start"
    /\ node_outputs = [id \in NodeIds(workflow) |-> NotRun]
    /\ ready_nodes = <<>>
    /\ errors = NoErrors
    /\ cur = NoCur
    /\ call = NoCall
    /\ callResult = NotRun
    /\ exc = NoException
    /\ output = EMPTY
    /\ result = NoResult
    /\ hooks = NoHooks
    /\ failed = {}
    /\ absorbed = {}
    /\ startRet = Unset
    /\ endRet = Unset
    /\ NoValues

(* ----------------- TopologicalExecutionAlgorithm.execute -------------- *)

Count(h) == [hooks EXCEPT ![h] = @ + 1]

\* A variant of OnWorkflowStart that drops "return result": a pair returned
\* by the hook is ignored and the run goes on.
OnWorkflowStart_IgnoresResult ==
    /\ pc = "on_workflow_start"
    /\ hooks' = Count("on_workflow_start")
    /\ \/ /\ startRet' = Returned("none", NoResult)
          /\ pc' = "get_ready_nodes"
          /\ UNCHANGED <<result, exc>>
       \/ \E r \in MemoResults :
          /\ startRet' = Returned("pair", r)
          /\ pc' = "get_ready_nodes"
          /\ UNCHANGED <<result, exc>>
       \/ /\ startRet' = Returned("raise", NoResult)
          /\ exc' = Exception("HookException", "", "on_workflow_start")
          /\ pc' = "raised"
          /\ UNCHANGED result
    /\ UNCHANGED <<values, workflow, input, node_outputs, ready_nodes, errors, cur, call,
                   callResult, output, failed, absorbed, endRet>>

\* result = await context.on_workflow_start(...); if result is not None:
\* return result.  The hook returns None, returns a pair, or raises.
OnWorkflowStart ==
    /\ pc = "on_workflow_start"
    /\ hooks' = Count("on_workflow_start")
    /\ \/ /\ startRet' = Returned("none", NoResult)
          /\ pc' = "get_ready_nodes"
          /\ UNCHANGED <<result, exc>>
       \/ \E r \in MemoResults :
          /\ startRet' = Returned("pair", r)
          /\ result' = r
          /\ pc' = "returned"
          /\ UNCHANGED exc
       \/ /\ startRet' = Returned("raise", NoResult)
          /\ exc' = Exception("HookException", "", "on_workflow_start")
          /\ pc' = "raised"
          /\ UNCHANGED result
    /\ UNCHANGED <<values, workflow, input, node_outputs, ready_nodes, errors, cur, call,
                   callResult, output, failed, absorbed, endRet>>

\* node_outputs = {}; errors = WorkflowErrors();
\* ready_nodes = dict(workflow.get_ready_nodes(input=input))
InitialReadyNodes ==
    /\ pc = "get_ready_nodes"
    /\ node_outputs' = [id \in NodeIds(workflow) |-> NotRun]
    /\ errors' = NoErrors
    /\ LET r == GetReadyNodes(workflow, input, node_outputs', <<>>) IN
       IF r.raised
       THEN /\ exc' = r.exc
            /\ pc' = "except"
            /\ UNCHANGED ready_nodes
       ELSE /\ ready_nodes' = r.ready
            /\ pc' = "loop"
            /\ UNCHANGED exc
    /\ UNCHANGED <<values, workflow, input, cur, call, callResult, output, result, hooks,
                   failed, absorbed, startRet, endRet>>

\* while len(ready_nodes) > 0: node_id, node_input = ready_nodes.popitem()
\* (popitem removes the entry inserted last), and node(context, node_input)
\* begins.
PopNode ==
    /\ pc = "loop"
    /\ Len(ready_nodes) > 0
    /\ cur' = ready_nodes[Len(ready_nodes)]
    /\ ready_nodes' = SubSeq(ready_nodes, 1, Len(ready_nodes) - 1)
    /\ call' = NoCall
    /\ callResult' = NotRun
    /\ pc' = "on_node_start"
    /\ UNCHANGED <<values, workflow, input, node_outputs, errors, exc, output, result, hooks,
                   failed, absorbed, startRet, endRet>>

\* The loop has ended: output = workflow.get_output(node_outputs), still
\* inside the try.
StrictOutput ==
    /\ pc = "loop"
    /\ Len(ready_nodes) = 0
    /\ LET o == GetOutput(workflow, node_outputs, FALSE) IN
       IF o.raised
       THEN /\ exc' = o.exc
            /\ pc' = "except"
            /\ UNCHANGED output
       ELSE /\ output' = o.output
            /\ pc' = "on_workflow_finish"
            /\ UNCHANGED exc
    /\ UNCHANGED <<values, workflow, input, node_outputs, ready_nodes, errors, cur, call,
                   callResult, result, hooks, failed, absorbed, startRet, endRet>>

(* ---------------------------- Node.__call__ --------------------------- *)

CurNode == NodeById(workflow, cur.id)

\* A variant of OnNodeStart that drops "if output is not None: return
\* output": a mapping returned by the hook does not end the call.
OnNodeStart_IgnoresOutput ==
    /\ pc = "on_node_start"
    /\ hooks' = Count("on_node_start")
    /\ \/ /\ call' = [call EXCEPT !.start = @ + 1]
          /\ pc' = "cast_input"
          /\ UNCHANGED <<callResult, exc>>
       \/ \E m \in HookMaps(CurNode) :
          /\ call' = [call EXCEPT !.start = @ + 1, !.memo = TRUE]
          /\ callResult' = MapOutput(m)
          /\ pc' = "cast_input"
          /\ UNCHANGED exc
       \/ /\ call' = [call EXCEPT !.start = @ + 1]
          /\ exc' = Exception("HookException", "", "on_node_start")
          /\ pc' = "on_node_error"
          /\ UNCHANGED callResult
    /\ UNCHANGED <<values, workflow, input, node_outputs, ready_nodes, errors, cur, output,
                   result, failed, absorbed, startRet, endRet>>

\* output = await context.on_node_start(node=self, input=input);
\* if output is not None: return output
OnNodeStart ==
    /\ pc = "on_node_start"
    /\ hooks' = Count("on_node_start")
    /\ \/ /\ call' = [call EXCEPT !.start = @ + 1]
          /\ pc' = "cast_input"
          /\ UNCHANGED <<callResult, exc>>
       \/ \E m \in HookMaps(CurNode) :
          /\ call' = [call EXCEPT !.start = @ + 1, !.memo = TRUE]
          /\ callResult' = MapOutput(m)
          /\ pc' = "record"
          /\ UNCHANGED exc
       \/ /\ call' = [call EXCEPT !.start = @ + 1]
          /\ exc' = Exception("HookException", "", "on_node_start")
          /\ pc' = "on_node_error"
          /\ UNCHANGED callResult
    /\ UNCHANGED <<values, workflow, input, node_outputs, ready_nodes, errors, cur, output,
                   result, failed, absorbed, startRet, endRet>>

\* input_obj = await self._cast_input(input, context): every value is
\* checked with can_cast_to and cast, and the result validated; any of these
\* raises UserException when a value does not fit its field.
CastInput ==
    /\ pc = "cast_input"
    /\ call' = [call EXCEPT !.cast = @ + 1]
    /\ \/ /\ pc' = "run"
          /\ UNCHANGED exc
       \/ /\ exc' = Exception("UserException", "", "cast")
          /\ pc' = "on_node_error"
    /\ UNCHANGED <<values, workflow, input, node_outputs, ready_nodes, errors, cur, callResult,
                   output, result, hooks, failed, absorbed, startRet, endRet>>

\* output_obj = await self.run(context, input_obj): a Data object, a
\* Workflow (returned as the call's result with no further hook), or an
\* exception.
Run ==
    /\ pc = "run"
    /\ hooks' = Count("run")
    /\ call' = [call EXCEPT !.run = @ + 1]
    /\ \/ /\ callResult' = MapOutput(RunOutput(CurNode))
          /\ pc' = "on_node_finish"
          /\ UNCHANGED exc
       \/ /\ callResult' = WorkflowOutput
          /\ pc' = "record"
          /\ UNCHANGED exc
       \/ /\ exc' = Exception("UserException", "", "run")
          /\ pc' = "on_node_error"
          /\ UNCHANGED callResult
    /\ UNCHANGED <<values, workflow, input, node_outputs, ready_nodes, errors, cur, output,
                   result, failed, absorbed, startRet, endRet>>

\* output = await context.on_node_finish(node=self, input=input,
\* output=output_obj.to_dict()): the hook returns its argument, returns
\* another mapping, or raises.
OnNodeFinish ==
    /\ pc = "on_node_finish"
    /\ hooks' = Count("on_node_finish")
    /\ call' = [call EXCEPT !.finish = @ + 1]
    /\ \/ \E m \in {callResult.map} \cup HookMaps(CurNode) :
          /\ callResult' = MapOutput(m)
          /\ pc' = "record"
          /\ UNCHANGED exc
       \/ /\ exc' = Exception("HookException", "", "on_node_finish")
          /\ callResult' = NotRun
          /\ pc' = "on_node_error"
    /\ UNCHANGED <<values, workflow, input, node_outputs, ready_nodes, errors, cur, output,
                   result, failed, absorbed, startRet, endRet>>

\* A variant of OnNodeError that re-raises the exception the hook returned
\* instead of wrapping it in NodeException(self.id).
OnNodeError_Reraises ==
    /\ pc = "on_node_error"
    /\ hooks' = Count("on_node_error")
    /\ call' = [call EXCEPT !.error = @ + 1]
    /\ \/ /\ failed' = failed \cup {cur.id}
          /\ pc' = "except"
          /\ UNCHANGED <<callResult, absorbed, exc>>
       \/ \E m \in HookMaps(CurNode) :
          /\ callResult' = MapOutput(m)
          /\ absorbed' = absorbed \cup {cur.id}
          /\ exc' = NoException
          /\ pc' = "record"
          /\ UNCHANGED failed
       \/ /\ exc' = Exception("HookException", "", "on_node_error")
          /\ pc' = "except"
          /\ UNCHANGED <<callResult, failed, absorbed>>
    /\ UNCHANGED <<values, workflow, input, node_outputs, ready_nodes, errors, cur, output,
                   result, startRet, endRet>>

\* except Exception as e: e = await context.on_node_error(...): the hook
\* returns an exception (raise NodeException(self.id) from e), returns a
\* mapping (return e), or raises itself.
OnNodeError ==
    /\ pc = "on_node_error"
    /\ hooks' = Count("on_node_error")
    /\ call' = [call EXCEPT !.error = @ + 1]
    /\ \/ /\ exc' = Exception("NodeException", cur.id, exc.type)
          /\ failed' = failed \cup {cur.id}
          /\ pc' = "except"
          /\ UNCHANGED <<callResult, absorbed>>
       \/ \E m \in HookMaps(CurNode) :
          /\ callResult' = MapOutput(m)
          /\ absorbed' = absorbed \cup {cur.id}
          /\ exc' = NoException
          /\ pc' = "record"
          /\ UNCHANGED failed
       \/ /\ exc' = Exception("HookException", "", "on_node_error")
          /\ pc' = "except"
          /\ UNCHANGED <<callResult, failed, absorbed>>
    /\ UNCHANGED <<values, workflow, input, node_outputs, ready_nodes, errors, cur, output,
                   result, startRet, endRet>>

\* A variant of RecordOutput that records the output but does not recompute
\* the ready set.
RecordOutput_KeepsStaleReady ==
    /\ pc = "record"
    /\ node_outputs' = [node_outputs EXCEPT ![cur.id] = callResult]
    /\ pc' = "loop"
    /\ UNCHANGED <<values, workflow, input, ready_nodes, errors, cur, call, callResult, exc,
                   output, result, hooks, failed, absorbed, startRet, endRet>>

\* node_outputs[node.id] = <the call's result>;
\* ready_nodes = dict(workflow.get_ready_nodes(input=input,
\*     node_outputs=node_outputs, partial_results=ready_nodes))
RecordOutput ==
    /\ pc = "record"
    /\ node_outputs' = [node_outputs EXCEPT ![cur.id] = callResult]
    /\ LET r == GetReadyNodes(workflow, input, node_outputs', ready_nodes) IN
       IF r.raised
       THEN /\ exc' = r.exc
            /\ pc' = "except"
            /\ UNCHANGED ready_nodes
       ELSE /\ ready_nodes' = r.ready
            /\ pc' = "loop"
            /\ UNCHANGED exc
    /\ UNCHANGED <<values, workflow, input, errors, cur, call, callResult, output, result,
                   hooks, failed, absorbed, startRet, endRet>>

(* ------------------------ execute: the way out ------------------------ *)

\* A variant of Except that forgets partial=True: the projection stops at
\* the first output edge it cannot resolve.
Except_StrictProjection ==
    /\ pc = "except"
    /\ errors' = AddError(errors, exc)
    /\ output' = GetOutput(workflow, node_outputs, FALSE).output
    /\ pc' = "on_workflow_error"
    /\ UNCHANGED <<values, workflow, input, node_outputs, ready_nodes, cur, call, callResult,
                   exc, result, hooks, failed, absorbed, startRet, endRet>>

\* except Exception as e: errors.add(e);
\* partial_output = workflow.get_output(node_outputs, partial=True)
Except ==
    /\ pc = "except"
    /\ errors' = AddError(errors, exc)
    /\ output' = GetOutput(workflow, node_outputs, TRUE).output
    /\ pc' = "on_workflow_error"
    /\ UNCHANGED <<values, workflow, input, node_outputs, ready_nodes, cur, call, callResult,
                   exc, result, hooks, failed, absorbed, startRet, endRet>>

\* A variant of OnWorkflowError that drops "return errors, partial_output":
\* control falls through to on_workflow_finish.
OnWorkflowError_FallsThrough ==
    /\ pc = "on_workflow_error"
    /\ hooks' = Count("on_workflow_error")
    /\ \/ \E r \in {[errors |-> errors, output |-> output], AltErrorResult} :
          /\ endRet' = Returned("pair", r)
          /\ result' = r
          /\ pc' = "on_workflow_finish"
          /\ UNCHANGED exc
       \/ /\ endRet' = Returned("raise", NoResult)
          /\ exc' = Exception("HookException", "", "on_workflow_error")
          /\ pc' = "raised"
          /\ UNCHANGED result
    /\ UNCHANGED <<values, workflow, input, node_outputs, ready_nodes, errors, cur, call,
                   callResult, output, failed, absorbed, startRet>>

\* errors, partial_output = await context.on_workflow_error(...);
\* return errors, partial_output
OnWorkflowError ==
    /\ pc = "on_workflow_error"
    /\ hooks' = Count("on_workflow_error")
    /\ \/ \E r \in {[errors |-> errors, output |-> output], AltErrorResult} :
          /\ endRet' = Returned("pair", r)
          /\ result' = r
          /\ pc' = "returned"
          /\ UNCHANGED exc
       \/ /\ endRet' = Returned("raise", NoResult)
          /\ exc' = Exception("HookException", "", "on_workflow_error")
          /\ pc' = "raised"
          /\ UNCHANGED result
    /\ UNCHANGED <<values, workflow, input, node_outputs, ready_nodes, errors, cur, call,
                   callResult, output, failed, absorbed, startRet>>

\* output = await context.on_workflow_finish(...); return errors, output
OnWorkflowFinish ==
    /\ pc = "on_workflow_finish"
    /\ hooks' = Count("on_workflow_finish")
    /\ \/ \E o \in {output, AltOutput} :
          /\ endRet' = Returned("output", [errors |-> NoErrors, output |-> o])
          /\ result' = [errors |-> errors, output |-> o]
          /\ pc' = "returned"
          /\ UNCHANGED exc
       \/ /\ endRet' = Returned("raise", NoResult)
          /\ exc' = Exception("HookException", "", "on_workflow_finish")
          /\ pc' = "raised"
          /\ UNCHANGED result
    /\ UNCHANGED <<values, workflow, input, node_outputs, ready_nodes, errors, cur, call,
                   callResult, output, failed, absorbed, startRet>>

Next ==
    \/ OnWorkflowStart
    \/ InitialReadyNodes
    \/ PopNode
    \/ StrictOutput
    \/ OnNodeStart
    \/ CastInput
    \/ Run
    \/ OnNodeFinish
    \/ OnNodeError
    \/ RecordOutput
    \/ Except
    \/ OnWorkflowError
    \/ OnWorkflowFinish

Spec == Init /\ [][Next]_vars

\* execute on the workflows of nodes a and b.
InitFair ==
    /\ Init
    /\ NodeIds(workflow) \subseteq {"a", "b"}

\* execute is one coroutine, resumed whenever the hook or the run it awaits
\* has returned or raised: when every hook and every run ends, a step that
\* can be taken is taken.
SpecFair == InitFair /\ [][Next]_vars /\ WF_vars(Next)

(* ----------------------- execute, cancelled --------------------------- *)

\* The awaits of Node.__call__: where a node call in flight is suspended.
NodeCallAwaits == {"on_node_start", "cast_input", "run", "on_node_finish", "on_node_error"}

\* A variant of Cancel in which the node call catches the CancelledError
\* as it catches an Exception, and goes on to on_node_error.
Cancel_TreatedAsFailure ==
    /\ pc \in NodeCallAwaits
    /\ pc' = "on_node_error"
    /\ exc' = Exception("CancelledError", cur.id, pc)
    /\ UNCHANGED <<values, workflow, input, node_outputs, ready_nodes, errors, cur, call,
                   callResult, output, result, hooks, failed, absorbed, startRet, endRet>>

\* A variant of Cancel in which the CancelledError is caught by execute's
\* except clause as an Exception would be.
Cancel_CaughtAsException ==
    /\ pc \in NodeCallAwaits
    /\ pc' = "except"
    /\ exc' = Exception("CancelledError", cur.id, pc)
    /\ UNCHANGED <<values, workflow, input, node_outputs, ready_nodes, errors, cur, call,
                   callResult, output, result, hooks, failed, absorbed, startRet, endRet>>

\* The task that drives execute is cancelled while a node call is in
\* flight: CancelledError is raised at the await the call is suspended on,
\* which the exception here carries as its cause.
\* It is a BaseException, so neither the except Exception of Node.__call__
\* nor that of execute catches it, and it leaves execute.
Cancel ==
    /\ pc \in NodeCallAwaits
    /\ pc' = "cancelled"
    /\ exc' = Exception("CancelledError", cur.id, pc)
    /\ UNCHANGED <<values, workflow, input, node_outputs, ready_nodes, errors, cur, call,
                   callResult, output, result, hooks, failed, absorbed, startRet, endRet>>

NextCancel ==
    \/ Next
    \/ Cancel

SpecCancel == Init /\ [][NextCancel]_vars

(* ------------- get_ready_nodes and get_output, called directly -------- *)

\* The node_outputs a caller may pass: for each node no entry, the node's
\* complete output, or a mapping that lacks the node's output field.
CallNodeOutputs(w) ==
    [NodeIds(w) -> {NotRun, MapOutput(EMPTY)}
                   \cup {MapOutput(RunOutput(n)) : n \in Range(w.nodes)}]

\* The partial_results a caller may pass: entries for any subset of the
\* nodes, in node order, each with an input mapping of the caller's own.
PartialEntry(id) == [id |-> id, input |-> {<<"x", Value("partial", id, "x")>>}]

PartialResults(w) ==
    { [i \in 1..Len(q) |-> PartialEntry(q[i].id)] :
          q \in {SelectSeq(w.nodes, LAMBDA n : n.id \in S) : S \in SUBSET NodeIds(w)} }

NoReturn == [fn |-> "", partial |-> FALSE, ret |-> NoResult]

InitCalls ==
    /\ workflow \in Workflows
    /\ input \in {FullInput, EMPTY}
    /\ node_outputs \in {outs \in CallNodeOutputs(workflow) :
                            \A id \in NodeIds(workflow) :
                                outs[id].kind = "map" /\ outs[id].map # EMPTY
                                    => outs[id].map = RunOutput(NodeById(workflow, id))}
    /\ ready_nodes \in PartialResults(workflow)
    /\ pc = "call"
    /\ result = NoReturn
    /\ errors = NoErrors
    /\ cur = NoCur
    /\ call = NoCall
    /\ callResult = NotRun
    /\ exc = NoException
    /\ output = EMPTY
    /\ hooks = NoHooks
    /\ failed = {}
    /\ absorbed = {}
    /\ startRet = Unset
    /\ endRet = Unset
    /\ NoValues

\* workflow.get_ready_nodes(input, node_outputs, partial_results)
CallGetReadyNodes ==
    /\ pc = "call"
    /\ result' = [fn |-> "get_ready_nodes", partial |-> FALSE,
                  ret |-> GetReadyNodes(workflow, input, node_outputs, ready_nodes)]
    /\ pc' = "called"
    /\ UNCHANGED <<values, workflow, input, node_outputs, ready_nodes, errors, cur, call,
                   callResult, exc, output, hooks, failed, absorbed, startRet, endRet>>

\* workflow.get_output(node_outputs, partial)
CallGetOutput ==
    /\ pc = "call"
    /\ \E partial \in BOOLEAN :
          result' = [fn |-> "get_output", partial |-> partial,
                     ret |-> GetOutput(workflow, node_outputs, partial)]
    /\ pc' = "called"
    /\ UNCHANGED <<values, workflow, input, node_outputs, ready_nodes, errors, cur, call,
                   callResult, exc, output, hooks, failed, absorbed, startRet, endRet>>

NextCalls ==
    \/ CallGetReadyNodes
    \/ CallGetOutput

SpecCalls == InitCalls /\ [][NextCalls]_vars

(* ------------------------ Workflow construction ----------------------- *)

\* The nodes a definition may list, in the order the lists are written in.
DefNodes ==
    << [id |-> "a/b", type |-> "Lenient"], [id |-> "a/b", type |-> "Strict"],
       [id |-> "a", type |-> "Lenient"],   [id |-> "a", type |-> "Strict"],
       [id |-> "a-b", type |-> "Lenient"], [id |-> "a-b", type |-> "Strict"] >>

DefIds == {DefNodes[i].id : i \in 1..Len(DefNodes)}

\* The edges a definition may list, of all three kinds, in the order the
\* lists are written in.
DefEdges ==
    SetToSeq({Edge(src, "o", t, k) : src \in DefIds, t \in DefIds, k \in {"x", "y"}}
             \cup {InputEdge(ik, t, k) : ik \in InputKeys, t \in DefIds, k \in {"x", "y"}}
             \cup {OutputEdge(src, "o", OutputKey(src)) : src \in DefIds})

IsOutputEdge(edge) == "output_key" \in DOMAIN edge

\* The place of a node, or of an edge, in those lists.
DefNodeIndex(n) == CHOOSE i \in 1..Len(DefNodes) : DefNodes[i] = n

DefEdgeIndex(e) == CHOOSE i \in 1..Len(DefEdges) : DefEdges[i] = e

AllEdges(w) == Range(w.edges) \cup Range(w.input_edges) \cup Range(w.output_edges)

NoDefinition == [nodes |-> <<>>, edges |-> <<>>, input_edges |-> <<>>, output_edges |-> <<>>]

\* The exception that ends the construction of an invalid definition: the
\* one raised by the first validator that fails.
ConstructError(w) ==
    IF ~ValidateNodes(w) THEN "ValueError"
    ELSE IF ~ValidateEdges(w)
    THEN IF NodesByIdOk(w) /\ \E e \in Range(w.edges) :
               ValidateTypesError(e, NodeById(w, e.source_id), NodeById(w, e.target_id))
                   = "TypeError"
         THEN "TypeError" ELSE "ValueError"
    ELSE "ValueError"

InitConstruct ==
    /\ workflow = NoDefinition
    /\ pc = "define"
    /\ input = EMPTY
    /\ node_outputs = <<>>
    /\ ready_nodes = <<>>
    /\ errors = NoErrors
    /\ cur = NoCur
    /\ call = NoCall
    /\ callResult = NotRun
    /\ exc = NoException
    /\ output = EMPTY
    /\ result = NoResult
    /\ hooks = NoHooks
    /\ failed = {}
    /\ absorbed = {}
    /\ startRet = Unset
    /\ endRet = Unset
    /\ NoValues

\* The caller lists one more node: at most MaxDefNodes of them, a node
\* possibly twice.
AddNode ==
    /\ pc = "define"
    /\ Len(workflow.nodes) < MaxDefNodes
    /\ AllEdges(workflow) = {}
    /\ \E i \in 1..Len(DefNodes) :
          /\ \A j \in 1..Len(workflow.nodes) : DefNodeIndex(workflow.nodes[j]) <= i
          /\ workflow' = [workflow EXCEPT !.nodes = Append(@, DefNodes[i])]
    /\ UNCHANGED <<values, input, pc, node_outputs, ready_nodes, errors, cur, call, callResult,
                   exc, output, result, hooks, failed, absorbed, startRet, endRet>>

\* The caller lists one more edge between the nodes listed: at most
\* MaxDefEdges edges of all three kinds together.
AddEdge ==
    /\ pc = "define"
    /\ Cardinality(AllEdges(workflow)) < MaxDefEdges
    /\ \E i \in 1..Len(DefEdges) :
          LET e == DefEdges[i] IN
          /\ \A f \in AllEdges(workflow) : DefEdgeIndex(f) < i
          /\ IF IsInputEdge(e)
             THEN /\ e.target_id \in NodeIds(workflow)
                  /\ workflow' = [workflow EXCEPT !.input_edges = Append(@, e)]
             ELSE IF IsOutputEdge(e)
             THEN /\ e.source_id \in NodeIds(workflow)
                  /\ workflow' = [workflow EXCEPT !.output_edges = Append(@, e)]
             ELSE /\ e.source_id \in NodeIds(workflow)
                  /\ e.target_id \in NodeIds(workflow)
                  /\ workflow' = [workflow EXCEPT !.edges = Append(@, e)]
    /\ UNCHANGED <<values, input, pc, node_outputs, ready_nodes, errors, cur, call, callResult,
                   exc, output, result, hooks, failed, absorbed, startRet, endRet>>

\* Workflow(nodes=..., edges=..., input_edges=..., output_edges=...): the
\* model validators run in the order they are defined.
Construct ==
    /\ pc = "define"
    /\ workflow.nodes # <<>>
    /\ IF ValidWorkflow(workflow)
       THEN pc' = "constructed" /\ UNCHANGED exc
       ELSE pc' = "rejected" /\ exc' = Exception(ConstructError(workflow), "", "Workflow")
    /\ UNCHANGED <<values, workflow, input, node_outputs, ready_nodes, errors, cur, call,
                   callResult, output, result, hooks, failed, absorbed, startRet, endRet>>

NextConstruct ==
    \/ AddNode
    \/ AddEdge
    \/ Construct

SpecConstruct == InitConstruct /\ [][NextConstruct]_vars

(* --------------------------- Edge.from_nodes -------------------------- *)

\* The keys a caller may name: the fields the nodes declare, and one that
\* no node declares.
SourceKeys == {"o", "z"}

TargetKeys == {"x", "y", "z"}

InitEdge ==
    /\ \E st \in NodeTypes, tt \in NodeTypes :
          workflow = [NoDefinition EXCEPT
                         !.nodes = <<[id |-> "a", type |-> st], [id |-> "b", type |-> tt]>>]
    /\ \E sk \in SourceKeys, tk \in TargetKeys :
          cur = [source_key |-> sk, target_key |-> tk]
    /\ pc = "from_nodes"
    /\ input = EMPTY
    /\ node_outputs = <<>>
    /\ ready_nodes = <<>>
    /\ errors = NoErrors
    /\ call = NoCall
    /\ callResult = NotRun
    /\ exc = NoException
    /\ output = EMPTY
    /\ result = NoResult
    /\ hooks = NoHooks
    /\ failed = {}
    /\ absorbed = {}
    /\ startRet = Unset
    /\ endRet = Unset
    /\ NoValues

\* Edge.from_nodes(source=, source_key=, target=, target_key=): build the
\* edge, validate_types, return it.
FromNodes ==
    /\ pc = "from_nodes"
    /\ LET source == workflow.nodes[1]
           target == workflow.nodes[2]
           edge == Edge(source.id, cur.source_key, target.id, cur.target_key)
           err == ValidateTypesError(edge, source, target)
       IN  IF err = ""
           THEN /\ workflow' = [workflow EXCEPT !.edges = <<edge>>]
                /\ pc' = "edge_returned"
                /\ UNCHANGED exc
           ELSE /\ exc' = Exception(err, "", "validate_types")
                /\ pc' = "edge_rejected"
                /\ UNCHANGED workflow
    /\ UNCHANGED <<values, input, node_outputs, ready_nodes, errors, cur, call, callResult,
                   output, result, hooks, failed, absorbed, startRet, endRet>>

NextEdge == FromNodes

SpecEdge == InitEdge /\ [][NextEdge]_vars

(* --------------- expand_node and with_namespace, called --------------- *)

\* The node lists of the workflows expanded and spliced in: node a alone or
\* nodes a and b, each Strict or Lenient.
SpliceNodeLists ==
    { <<[id |-> "a", type |-> t]>> : t \in {"Strict", "Lenient"} }
    \cup { <<[id |-> "a", type |-> t], [id |-> "b", type |-> u]>> :
              t \in {"Strict", "Lenient"}, u \in {"Strict", "Lenient"} }

\* The definitions over those nodes with at most one internal edge and the
\* given input and output edges, that construct.
SpliceWorkflows(input_edges, output_edges) ==
    { w \in UNION { [nodes : {ns},
                     edges : {<<>>} \cup {<<Edge("a", "o", "b", k)>> : k \in {"x", "y"}},
                     input_edges : {SetToSeq(E) : E \in SUBSET input_edges},
                     output_edges : {SetToSeq(E) : E \in SUBSET output_edges}]
                    : ns \in SpliceNodeLists } :
        /\ \A e \in AllEdges(w) :
              /\ "source_id" \in DOMAIN e => e.source_id \in NodeIds(w)
              /\ "target_id" \in DOMAIN e => e.target_id \in NodeIds(w)
        /\ ValidWorkflow(w) }

\* The workflows a node is expanded in: fed by the workflow input p.
Hosts ==
    SpliceWorkflows({InputEdge("p", "a", "x"), InputEdge("p", "a", "y"), InputEdge("p", "b", "x")},
                    {OutputEdge(src, "o", OutputKey(src)) : src \in {"a", "b"}})

\* The workflows spliced in: their input keys are the input fields of the
\* node they replace, and their output key its output field.
Subgraphs ==
    SpliceWorkflows({InputEdge("x", "a", "x"), InputEdge("y", "a", "y"), InputEdge("x", "b", "x")},
                    {OutputEdge(src, "o", "o") : src \in {"a", "b"}})

InitExpand ==
    /\ workflow \in Hosts
    /\ \E sub \in Subgraphs, id \in {"a", "b", "c"} :
          cur = [node_id |-> id, subgraph |-> sub]
    /\ pc = "call"
    /\ result = [fn |-> "", ret |-> Return(NoWorkflow)]
    /\ input = EMPTY
    /\ node_outputs = <<>>
    /\ ready_nodes = <<>>
    /\ errors = NoErrors
    /\ call = NoCall
    /\ callResult = NotRun
    /\ exc = NoException
    /\ output = EMPTY
    /\ hooks = NoHooks
    /\ failed = {}
    /\ absorbed = {}
    /\ startRet = Unset
    /\ endRet = Unset
    /\ NoValues

\* workflow.expand_node(node_id, subgraph)
CallExpandNode ==
    /\ pc = "call"
    /\ result' = [fn |-> "expand_node", ret |-> ExpandNode(workflow, cur.node_id, cur.subgraph)]
    /\ pc' = "called"
    /\ UNCHANGED <<values, workflow, input, node_outputs, ready_nodes, errors, cur, call,
                   callResult, exc, output, hooks, failed, absorbed, startRet, endRet>>

\* subgraph.with_namespace(node_id)
CallNamespace ==
    /\ pc = "call"
    /\ result' = [fn |-> "with_namespace",
                  ret |-> CallWithNamespace(cur.subgraph, cur.node_id)]
    /\ pc' = "called"
    /\ UNCHANGED <<values, workflow, input, node_outputs, ready_nodes, errors, cur, call,
                   callResult, exc, output, hooks, failed, absorbed, startRet, endRet>>

NextExpand ==
    \/ CallExpandNode
    \/ CallNamespace

SpecExpand == InitExpand /\ [][NextExpand]_vars

(* ------------------- Value: the caster registry ----------------------- *)

Class(name) == [origin |-> name, args |-> <<>>]

FloatValue == Class("FloatValue")

JSONFileValue == Class("JSONFileValue")

\* The classes of the hierarchy that casters are registered on while the
\* program runs: GrandValue(Value), FirstValue(GrandValue),
\* SecondValue(Value), BothValue(FirstValue, SecondValue), and the target
\* TargetValue(Value).
UserClasses ==
    {Class("GrandValue"), Class("FirstValue"), Class("SecondValue"), Class("BothValue")}

ValueClasses ==
    {Class("Value"), IntegerValue, FloatValue, StringValue, JSONValue,
     Class("SequenceValue"), SequenceValue(IntegerValue), SequenceValue(FloatValue),
     Class("FileValue"), Class("TextFileValue"), JSONFileValue,
     Class("TargetValue")} \cup UserClasses

\* cls.__bases__: a parametrised class has its origin as its base; Value
\* itself has a base that is not a Value class.
Bases(cls) ==
    IF cls.args # <<>> THEN <<Class(cls.origin)>>
    ELSE CASE cls.origin = "Value" -> <<Class("ImmutableRootModel")>>
           [] cls.origin = "TextFileValue" -> <<Class("FileValue")>>
           [] cls.origin = "JSONFileValue" -> <<Class("TextFileValue")>>
           [] cls.origin = "FirstValue" -> <<Class("GrandValue")>>
           [] cls.origin = "BothValue" -> <<Class("FirstValue"), Class("SecondValue")>>
           [] cls.origin = "ImmutableRootModel" -> <<>>
           [] OTHER -> <<Class("Value")>>

\* issubclass(parent, Value)
IsValueClass(cls) == cls.origin # "ImmutableRootModel"

\* issubclass(cls, t)
RECURSIVE IsSubclass(_, _)
IsSubclass(cls, t) ==
    \/ cls = t
    \/ \E i \in DOMAIN Bases(cls) : IsSubclass(Bases(cls)[i], t)

\* The Value classes above a class, the class itself excluded.
Ancestors(cls) == {a \in ValueClasses : a # cls /\ IsSubclass(cls, a)}

\* cls._casters once core/value.py, files/text.py and files/json.py have
\* been imported: the generic caster registered for each target origin.
ImportedCasters(cls) ==
    IF cls.args # <<>> THEN EMPTY
    ELSE CASE cls.origin = "Value" ->
                {<<"StringValue", "cast_value_to_string">>,
                 <<"JSONValue", "cast_any_to_json">>,
                 <<"JSONFileValue", "cast_any_to_json_file">>}
           [] cls.origin = "IntegerValue" -> {<<"FloatValue", "cast_integer_to_float">>}
           [] cls.origin = "FloatValue" -> {<<"IntegerValue", "cast_float_to_integer">>}
           [] cls.origin = "StringValue" ->
                {<<"BooleanValue", "cast_string_to_boolean">>,
                 <<"IntegerValue", "cast_string_to_integer">>,
                 <<"FloatValue", "cast_string_to_float">>}
           [] cls.origin = "SequenceValue" ->
                {<<"SequenceValue", "cast_sequence_to_sequence">>}
           [] cls.origin = "TextFileValue" -> {<<"StringValue", "cast_text_to_string">>}
           [] cls.origin = "JSONFileValue" ->
                {<<"NullValue", "cast_json_to_null">>,
                 <<"BooleanValue", "cast_json_to_boolean">>,
                 <<"IntegerValue", "cast_json_to_integer">>,
                 <<"FloatValue", "cast_json_to_float">>,
                 <<"StringValue", "cast_json_to_string">>,
                 <<"SequenceValue", "cast_json_to_sequence">>,
                 <<"StringMapValue", "cast_json_to_string_map">>}
           [] OTHER -> EMPTY

\* cls._resolved_casters: None, or the table cached by _get_casters.
Unresolved == [resolved |-> FALSE, table |-> EMPTY]

Resolved(table) == [resolved |-> TRUE, table |-> table]

\* The value of an expression, computed once and given its name in what
\* follows (a local variable of the code).
Bind(e, F(_)) == CHOOSE y \in {F(x) : x \in {e}} : TRUE

\* A variant of InheritFrom that reads the parents' tables without caching
\* them on the parents.
RECURSIVE GetCasters(_, _, _)
RECURSIVE InheritFrom_LeavesParentsUnresolved(_, _, _, _, _)
InheritFrom_LeavesParentsUnresolved(bases, i, cs, res, table) ==
    IF i > Len(bases) THEN [res |-> res, table |-> table]
    ELSE IF ~IsValueClass(bases[i])
    THEN InheritFrom_LeavesParentsUnresolved(bases, i + 1, cs, res, table)
    ELSE LET parent_casters == GetCasters(bases[i], cs, res)[bases[i]].table
         IN  InheritFrom_LeavesParentsUnresolved(bases, i + 1, cs, res,
                 table \cup {c \in parent_casters : c[1] \notin Keys(table)})

\* The loop of _get_casters over cls.__bases__: each Value parent resolves
\* its own table, and its casters are taken for the origins not yet in the
\* table.
RECURSIVE InheritFrom(_, _, _, _, _)
InheritFrom(bases, i, cs, res, table) ==
    IF i > Len(bases) THEN [res |-> res, table |-> table]
    ELSE IF ~IsValueClass(bases[i])
    THEN InheritFrom(bases, i + 1, cs, res, table)
    ELSE Bind(GetCasters(bases[i], cs, res), LAMBDA res1 :
         LET parent_casters == res1[bases[i]].table
         IN  InheritFrom(bases, i + 1, cs, res1,
                 table \cup {c \in parent_casters : c[1] \notin Keys(table)}))

\* Value._get_casters: the resolved tables after the call, that of cls
\* among them.
GetCasters(cls, cs, res) ==
    IF res[cls].resolved THEN res
    ELSE Bind(InheritFrom(Bases(cls), 1, cs, res, cs[cls]), LAMBDA r :
         [r.res EXCEPT ![cls] = Resolved(r.table)])

\* What get_caster gives back: a caster's name, "identity" for the lambda
\* that returns the value, "None", or an error raised by a generic caster.
Lookup(caster, res) == [caster |-> caster, raised |-> "", res |-> res]

LookupRaised(type, res) == [caster |-> "None", raised |-> type, res |-> res]

\* generic_caster(cls, t): the casters registered through register_cast_to
\* and the generic casters registered while the program runs return a
\* caster whatever the types; cast_sequence_to_sequence declines when the
\* items cannot be cast; cast_json_to_sequence and cast_json_to_string_map
\* assert that the target is a JSONFileValue.
RECURSIVE GetCaster(_, _, _, _)
GenericCaster(name, cls, t, cs, res) ==
    CASE name = "cast_sequence_to_sequence" ->
            IF cls.args = <<>> \/ t.args = <<>>
            THEN LookupRaised("ValueError", res)
            ELSE Bind(GetCaster(cls.args[1], t.args[1], cs, res), LAMBDA item :
                 IF item.raised # "" THEN item
                 ELSE IF item.caster = "None" THEN Lookup("None", item.res)
                 ELSE Lookup(name, item.res))
      [] name \in {"cast_json_to_sequence", "cast_json_to_string_map"} ->
            IF IsSubclass(t, JSONFileValue) THEN Lookup(name, res)
            ELSE LookupRaised("AssertionError", res)
      [] OTHER -> Lookup(name, res)

\* Value.get_caster
GetCaster(cls, t, cs, res) ==
    Bind(GetCasters(cls, cs, res), LAMBDA res1 :
    LET converters == res1[cls].table IN
    Bind(IF t.origin \in Keys(converters)
         THEN GenericCaster(Get(converters, t.origin), cls, t, cs, res1)
         ELSE Lookup("None", res1), LAMBDA found :
        IF found.raised # "" \/ found.caster # "None" THEN found
        ELSE IF IsSubclass(cls, t) THEN Lookup("identity", found.res)
        ELSE Lookup("None", found.res)))

\* The wrap of register_generic_cast_to.
Register(cls, t, caster, cs, res) ==
    IF res[cls].resolved
    THEN [raised |-> "RuntimeError", casters |-> cs]
    ELSE IF t.origin \in Keys(cs[cls])
    THEN [raised |-> "AssertionError", casters |-> cs]
    ELSE [raised |-> "", casters |-> [cs EXCEPT ![cls] = Put(@, t.origin, caster)]]

(* ------------------ the caster registry, called ----------------------- *)

\* The targets a caster is registered for and looked up.
RegistryTargets == {Class("TargetValue"), Class("GrandValue")}

\* The names of the casters registered: two plain ones per class and one
\* generic.
CasterNames(cls) == {cls.origin \o ".first", cls.origin \o ".second"}

NoRegistryCall == [fn |-> "", cls |-> Class(""), t |-> Class(""), caster |-> "", raised |-> ""]

InitRegistry ==
    /\ casters = [cls \in ValueClasses |-> ImportedCasters(cls)]
    /\ resolved_casters = [cls \in ValueClasses |-> Unresolved]
    /\ result = NoRegistryCall
    /\ pc = "registry"
    /\ value = <<>>
    /\ cast_cache = <<>>
    /\ caster_calls = 0
    /\ context = <<>>
    /\ workflow = NoWorkflow
    /\ input = EMPTY
    /\ node_outputs = <<>>
    /\ ready_nodes = <<>>
    /\ errors = NoErrors
    /\ cur = NoCur
    /\ call = NoCall
    /\ callResult = NotRun
    /\ exc = NoException
    /\ output = EMPTY
    /\ hooks = NoHooks
    /\ failed = {}
    /\ absorbed = {}
    /\ startRet = Unset
    /\ endRet = Unset

\* cls.register_cast_to(t)(caster)
RegisterCastTo ==
    \E cls \in UserClasses, t \in {Class("TargetValue")} : \E caster \in CasterNames(cls) :
        LET r == Register(cls, t, caster, casters, resolved_casters) IN
        /\ casters' = r.casters
        /\ result' = [fn |-> "register_cast_to", cls |-> cls, t |-> t,
                      caster |-> caster, raised |-> r.raised]
        /\ UNCHANGED <<resolved_casters, value, cast_cache, caster_calls, context>>
        /\ UNCHANGED <<workflow, input, pc, node_outputs, ready_nodes, errors, cur, call,
                       callResult, exc, output, hooks, failed, absorbed, startRet, endRet>>

\* cls.register_generic_cast_to(t)(caster)
RegisterGenericCastTo ==
    \E cls \in UserClasses, t \in {Class("TargetValue")} :
        LET caster == cls.origin \o ".generic"
            r == Register(cls, t, caster, casters, resolved_casters) IN
        /\ casters' = r.casters
        /\ result' = [fn |-> "register_generic_cast_to", cls |-> cls, t |-> t,
                      caster |-> caster, raised |-> r.raised]
        /\ UNCHANGED <<resolved_casters, value, cast_cache, caster_calls, context>>
        /\ UNCHANGED <<workflow, input, pc, node_outputs, ready_nodes, errors, cur, call,
                       callResult, exc, output, hooks, failed, absorbed, startRet, endRet>>

\* cls.get_caster(t)
CallGetCaster ==
    \E cls \in UserClasses, t \in RegistryTargets :
        LET r == GetCaster(cls, t, casters, resolved_casters) IN
        /\ resolved_casters' = r.res
        /\ result' = [fn |-> "get_caster", cls |-> cls, t |-> t,
                      caster |-> r.caster, raised |-> r.raised]
        /\ UNCHANGED <<casters, value, cast_cache, caster_calls, context>>
        /\ UNCHANGED <<workflow, input, pc, node_outputs, ready_nodes, errors, cur, call,
                       callResult, exc, output, hooks, failed, absorbed, startRet, endRet>>

NextRegistry ==
    \/ RegisterCastTo
    \/ RegisterGenericCastTo
    \/ CallGetCaster

SpecRegistry == InitRegistry /\ [][NextRegistry]_vars

(* ------------------------- Value.cast_to ------------------------------ *)

\* A value: its class and its root.  An int or a float root is held by its
\* whole number, a str by its text, a File by its path, a sequence by its
\* items.
Val(cls, root) == [cls |-> cls, root |-> root]

IntRoot(n) == [kind |-> "int", n |-> n]

FloatRoot(n) == [kind |-> "float", n |-> n]

StrRoot(text) == [kind |-> "str", s |-> text]

FileRoot(path) == [kind |-> "file", path |-> path]

SeqRoot(items) == [kind |-> "seq", items |-> items]

NoValue == Val(Class("None"), [kind |-> "none"])

\* str(n) and its inverse, on the integers the values hold.
IntToStr(n) == IF n = 0 THEN "0" ELSE "1"

IsIntText(text) == text \in {"0", "1"}

StrToInt(text) == IF text = "0" THEN 0 ELSE 1

\* str(value): str of the root; the items of a list show by their repr,
\* ClassName(root).
RECURSIVE Str(_)
Str(root) ==
    CASE root.kind = "int" -> IntToStr(root.n)
      [] root.kind = "float" -> IntToStr(root.n) \o ".0"
      [] root.kind = "str" -> root.s
      [] root.kind = "file" -> "path='" \o root.path \o "'"
      [] root.kind = "seq" ->
            IF root.items = <<>> THEN "[]"
            ELSE "[" \o root.items[1].cls.origin \o "(" \o Str(root.items[1].root) \o ")]"

\* json.dumps(value.model_dump())
RECURSIVE JsonDumps(_)
JsonDumps(root) ==
    CASE root.kind = "int" -> IntToStr(root.n)
      [] root.kind = "float" -> IntToStr(root.n) \o ".0"
      [] root.kind = "str" -> "\"" \o root.s \o "\""
      [] root.kind = "file" -> "{\"path\": \"" \o root.path \o "\"}"
      [] root.kind = "seq" ->
            IF root.items = <<>> THEN "[]"
            ELSE "[" \o JsonDumps(root.items[1].root) \o "]"

\* json.loads(text), on the texts the context holds.
JsonLoads(text) ==
    IF IsIntText(text) THEN IntRoot(StrToInt(text)) ELSE StrRoot(text)

\* md5(text).hexdigest(): a digest, never the text of a path written out.
Md5(text) == "md5(" \o text \o ")"

\* get_value_type_key
RECURSIVE TypeKey(_)
TypeKey(t) == <<t.origin, [i \in DOMAIN t.args |-> TypeKey(t.args[i])]>>

\* The context: the bytes it holds by path, and the reads and writes made
\* through it.
NewContext(files) == [files |-> files, reads |-> 0, writes |-> 0]

\* FileValue.write(context, content): context.write(file, content)
FileWrite(ctx, path, content) ==
    [ctx EXCEPT !.files = Put(@, path, content), !.writes = @ + 1]

\* FileValue.read(context): context.read(file); the count is of the calls.
FileRead(ctx) == [ctx EXCEPT !.reads = @ + 1]

\* The instances casts are made on: the value and its first item.
Instances == {<<>>, <<1>>}

CastReturn(v, st) == [raised |-> "", value |-> v, st |-> st]

CastRaise(type, st) == [raised |-> type, value |-> NoValue, st |-> st]

\* cast_json_to_integer, cast_json_to_float and cast_json_to_string:
\* read_data through the context, then the isinstance check.
CastJson(kind, cls, v, st) ==
    LET st1 == [st EXCEPT !.ctx = FileRead(@)] IN
    IF v.root.path \notin Keys(st.ctx.files) THEN CastRaise("UserException", st1)
    ELSE LET data == JsonLoads(Get(st.ctx.files, v.root.path)) IN
         IF data.kind = kind THEN CastReturn(Val(cls, data), st1)
         ELSE CastRaise("ValueError", st1)

\* A variant of CastTo that keys the cache by the target's origin alone.
RECURSIVE Apply(_, _, _, _, _)
CastTo_KeyedByOrigin(v, who, t, st) ==
    LET key == <<t.origin, <<>>>> IN
    IF key \in Keys(st.cache[who])
    THEN CastReturn(Get(st.cache[who], key), st)
    ELSE Bind(GetCaster(v.cls, t, casters, st.res), LAMBDA cast_fn :
         LET st1 == [st EXCEPT !.res = cast_fn.res]
         IN  IF cast_fn.raised # "" THEN CastRaise(cast_fn.raised, st1)
             ELSE IF cast_fn.caster = "None" THEN CastRaise("ValueError", st1)
             ELSE Bind(Apply(cast_fn.caster, v, who, t,
                             [st1 EXCEPT !.calls = @ + 1]), LAMBDA r :
                      IF r.raised # "" THEN r
                      ELSE CastReturn(r.value,
                               [r.st EXCEPT !.cache[who] = Put(@, key, r.value)])))

\* Value.cast_to: the cached value for the target's key, or else the caster
\* get_caster finds, invoked, and its result cached.
CastTo(v, who, t, st) ==
    LET key == TypeKey(t) IN
    IF key \in Keys(st.cache[who])
    THEN CastReturn(Get(st.cache[who], key), st)
    ELSE Bind(GetCaster(v.cls, t, casters, st.res), LAMBDA cast_fn :
         LET st1 == [st EXCEPT !.res = cast_fn.res]
         IN  IF cast_fn.raised # "" THEN CastRaise(cast_fn.raised, st1)
             ELSE IF cast_fn.caster = "None" THEN CastRaise("ValueError", st1)
             ELSE Bind(Apply(cast_fn.caster, v, who, t,
                             [st1 EXCEPT !.calls = @ + 1]), LAMBDA r :
                      IF r.raised # "" THEN r
                      ELSE CastReturn(r.value,
                               [r.st EXCEPT !.cache[who] = Put(@, key, r.value)])))

\* The casters, by name: what each returns for a value, and what it does to
\* the context on the way.
Apply(caster, v, who, t, st) ==
    CASE caster = "identity" -> CastReturn(v, st)
      [] caster = "cast_value_to_string" ->
            CastReturn(Val(StringValue, StrRoot(Str(v.root))), st)
      [] caster = "cast_any_to_json" -> CastReturn(Val(JSONValue, v.root), st)
      [] caster = "cast_any_to_json_file" ->
            LET path == Md5(Str(v.root)) \o ".json" IN
            CastReturn(Val(JSONFileValue, FileRoot(path)),
                       [st EXCEPT !.ctx = FileWrite(@, path, JsonDumps(v.root))])
      [] caster = "cast_integer_to_float" ->
            CastReturn(Val(FloatValue, FloatRoot(v.root.n)), st)
      [] caster = "cast_float_to_integer" ->
            CastReturn(Val(IntegerValue, IntRoot(v.root.n)), st)
      [] caster = "cast_string_to_integer" ->
            IF IsIntText(v.root.s)
            THEN CastReturn(Val(IntegerValue, IntRoot(StrToInt(v.root.s))), st)
            ELSE CastRaise("ValidationError", st)
      [] caster = "cast_string_to_float" ->
            IF IsIntText(v.root.s)
            THEN CastReturn(Val(FloatValue, FloatRoot(StrToInt(v.root.s))), st)
            ELSE CastRaise("ValidationError", st)
      [] caster = "cast_json_to_integer" -> CastJson("int", IntegerValue, v, st)
      [] caster = "cast_json_to_float" -> CastJson("float", FloatValue, v, st)
      [] caster = "cast_json_to_string" -> CastJson("str", StringValue, v, st)
      [] caster = "cast_sequence_to_sequence" ->
            IF v.root.items = <<>> THEN CastReturn(Val(t, SeqRoot(<<>>)), st)
            ELSE Bind(CastTo(v.root.items[1], <<1>>, t.args[1], st), LAMBDA item :
                 IF item.raised # "" THEN item
                 ELSE CastReturn(Val(t, SeqRoot(<<item.value>>)), item.st))
      [] OTHER -> CastRaise("TypeError", st)

(* ------------------------- cast_to, called ---------------------------- *)

\* The values cast: an integer, two strings, a JSON file the context holds,
\* and a sequence of one integer.
CastValues ==
    {Val(IntegerValue, IntRoot(1)),
     Val(StringValue, StrRoot("1")),
     Val(StringValue, StrRoot("x")),
     Val(JSONFileValue, FileRoot("f.json")),
     Val(SequenceValue(IntegerValue), SeqRoot(<<Val(IntegerValue, IntRoot(1))>>))}

CastTargets ==
    {IntegerValue, FloatValue, StringValue, JSONFileValue, Class("Value"),
     SequenceValue(IntegerValue), SequenceValue(FloatValue)}

NoCast ==
    [fn |-> "", n |-> 0, t |-> Class(""), cached |-> FALSE, raised |-> "", value |-> NoValue]

InitCast ==
    /\ value \in CastValues
    /\ casters = [cls \in ValueClasses |-> ImportedCasters(cls)]
    /\ resolved_casters = [cls \in ValueClasses |-> Unresolved]
    /\ cast_cache = [who \in Instances |-> EMPTY]
    /\ caster_calls = 0
    /\ context = NewContext({<<"f.json", "1">>})
    /\ result = NoCast
    /\ pc = "cast"
    /\ workflow = NoWorkflow
    /\ input = EMPTY
    /\ node_outputs = <<>>
    /\ ready_nodes = <<>>
    /\ errors = NoErrors
    /\ cur = NoCur
    /\ call = NoCall
    /\ callResult = NotRun
    /\ exc = NoException
    /\ output = EMPTY
    /\ hooks = NoHooks
    /\ failed = {}
    /\ absorbed = {}
    /\ startRet = Unset
    /\ endRet = Unset

\* await value.cast_to(t, context=context)
CallCastTo ==
    /\ result.n < MaxCasts
    /\ \E t \in CastTargets :
          \E r \in {CastTo(value, <<>>, t,
                            [res |-> resolved_casters, cache |-> cast_cache,
                             ctx |-> context, calls |-> caster_calls])} :
          /\ resolved_casters' = r.st.res
          /\ cast_cache' = r.st.cache
          /\ context' = r.st.ctx
          /\ caster_calls' = r.st.calls
          /\ result' = [fn |-> "cast_to", n |-> result.n + 1, t |-> t,
                        cached |-> TypeKey(t) \in Keys(cast_cache[<<>>]),
                        raised |-> r.raised, value |-> r.value]
    /\ UNCHANGED <<casters, value>>
    /\ UNCHANGED <<workflow, input, pc, node_outputs, ready_nodes, errors, cur, call,
                   callResult, exc, output, hooks, failed, absorbed, startRet, endRet>>

NextCast == CallCastTo

SpecCast == InitCast /\ [][NextCast]_vars

(* ------------------ LocalContext._idempotent_write -------------------- *)

\* A text is its characters; these are the carriage return, the line feed
\* and the backslash.
CR == "\r"

LF == "\n"

Backslash == "\\"

\* json.dumps(text): the text between quotes, a carriage return and a line
\* feed written as their two-character escapes.
RECURSIVE JsonEscape(_)
JsonEscape(text) ==
    IF text = <<>> THEN <<>>
    ELSE (CASE Head(text) = CR -> <<Backslash, "r">>
            [] Head(text) = LF -> <<Backslash, "n">>
            [] Head(text) = Backslash -> <<Backslash, Backslash>>
            [] OTHER -> <<Head(text)>>) \o JsonEscape(Tail(text))

JsonDumpsText(text) == <<"\"">> \o JsonEscape(text) \o <<"\"">>

\* f.read() of a file opened with "r": a carriage return and line feed, or
\* a carriage return alone, is read as one line feed.
RECURSIVE ReadText(_)
ReadText(content) ==
    IF content = <<>> THEN <<>>
    ELSE IF Head(content) = CR
    THEN <<LF>> \o ReadText(IF Len(content) > 1 /\ content[2] = LF
                            THEN Tail(Tail(content)) ELSE Tail(content))
    ELSE <<Head(content)>> \o ReadText(Tail(content))

\* f.write(data) of a file opened with "x": a line feed is written as
\* os.linesep, the line feed itself on a POSIX system.
WriteText(data) == data

\* A variant of IdempotentWrite that writes over the file that exists.
IdempotentWrite_Overwrites(files, path, data) ==
    [raised |-> "", files |-> Put(files, path, WriteText(data))]

\* LocalContext._idempotent_write
IdempotentWrite(files, path, data) ==
    IF path \in Keys(files)
    THEN IF ReadText(Get(files, path)) = data
         THEN [raised |-> "", files |-> files]
         ELSE [raised |-> "AssertionError", files |-> files]
    ELSE [raised |-> "", files |-> Put(files, path, WriteText(data))]

(* -------------------- _idempotent_write, called ----------------------- *)

\* The paths written: a node's input file and its output file.
RunPaths == {"input/a.json", "output/a.json"}

\* The data written: json.dumps of a text of one line, of a text that ends
\* in a line feed, and of one that ends in a carriage return and line feed.
RunData ==
    {JsonDumpsText(<<"a">>), JsonDumpsText(<<"a", LF>>), JsonDumpsText(<<"a", CR, LF>>)}

InitWrite ==
    /\ context = NewContext(EMPTY)
    /\ result = <<>>
    /\ pc = "write"
    /\ casters = <<>>
    /\ resolved_casters = <<>>
    /\ value = <<>>
    /\ cast_cache = <<>>
    /\ caster_calls = 0
    /\ workflow = NoWorkflow
    /\ input = EMPTY
    /\ node_outputs = <<>>
    /\ ready_nodes = <<>>
    /\ errors = NoErrors
    /\ cur = NoCur
    /\ call = NoCall
    /\ callResult = NotRun
    /\ exc = NoException
    /\ output = EMPTY
    /\ hooks = NoHooks
    /\ failed = {}
    /\ absorbed = {}
    /\ startRet = Unset
    /\ endRet = Unset

\* context._idempotent_write(path=path, data=data); result is the list of
\* the calls made so far.
CallIdempotentWrite ==
    /\ Len(result) < MaxWrites
    /\ \E path \in RunPaths, data \in RunData :
          LET r == IdempotentWrite(context.files, path, data) IN
          /\ context' = [context EXCEPT !.files = r.files]
          /\ result' = Append(result, [path |-> path, data |-> data, raised |-> r.raised])
    /\ UNCHANGED <<casters, resolved_casters, value, cast_cache, caster_calls>>
    /\ UNCHANGED <<workflow, input, pc, node_outputs, ready_nodes, errors, cur, call,
                   callResult, exc, output, hooks, failed, absorbed, startRet, endRet>>

NextWrite == CallIdempotentWrite

SpecWrite == InitWrite /\ [][NextWrite]_vars

(* ------------------- Workflow serialization --------------------------- *)

\* The node registry after the node classes have been defined: each class
\* with a literal type is registered under it, the class being named by the
\* type followed by "Node" (Node.__init_subclass__).
NodeRegistryTypes == {<<type, type \o "Node">> : type \in {"Strict", "Lenient"}}

\* The class of the params field of a node class; the base Node takes the
\* base Params, which allows any field.
ParamsType(cls) ==
    CASE cls = "StrictNode" -> "Empty"
      [] cls = "LenientNode" -> "LenientParams"
      [] OTHER -> "Params"

\* A node object: its class, and its fields type, id and params.
NodeObject(cls, type, id, fields) ==
    [cls |-> cls, type |-> type, id |-> id,
     params |-> [cls |-> ParamsType(cls), fields |-> fields]]

\* node.model_dump(): the fields, without the classes.
NodeDump(node) == [type |-> node.type, id |-> node.id, params |-> node.params.fields]

\* A variant of ToSubclass that leaves the node an instance of the class it
\* was validated as.
ToSubclass_KeepsBase(node) == [raised |-> "", node |-> node]

\* Node._to_subclass: an instance of a base class is replaced by the class
\* registered for its type, validated from its dump.
ToSubclass(node) ==
    IF node.cls # "Node" THEN [raised |-> "", node |-> node]
    ELSE IF node.type \notin Keys(NodeRegistryTypes)
    THEN [raised |-> "ValueError", node |-> node]
    ELSE LET dump == NodeDump(node) IN
         [raised |-> "",
          node |-> NodeObject(Get(NodeRegistryTypes, node.type),
                              dump.type, dump.id, dump.params)]

\* Node.model_validate(payload): the base class validates the fields, then
\* _to_subclass runs.
NodeValidate(payload) ==
    ToSubclass(NodeObject("Node", payload.type, payload.id, payload.params))

\* edge.model_dump() for the three kinds of edge: a dict of the fields.
EdgeDump(edge) == {<<k, edge[k]>> : k \in DOMAIN edge}

\* The three kinds of edge, validated from a dict of their fields.
EdgeValidate(payload) ==
    Edge(Get(payload, "source_id"), Get(payload, "source_key"),
         Get(payload, "target_id"), Get(payload, "target_key"))

InputEdgeValidate(payload) ==
    InputEdge(Get(payload, "input_key"), Get(payload, "target_id"),
              Get(payload, "target_key"))

OutputEdgeValidate(payload) ==
    OutputEdge(Get(payload, "source_id"), Get(payload, "source_key"),
               Get(payload, "output_key"))

\* workflow.model_dump_json(): the four lists, each item dumped.
ModelDumpJson(w) ==
    [nodes |-> [i \in DOMAIN w.nodes |-> NodeDump(w.nodes[i])],
     edges |-> [i \in DOMAIN w.edges |-> EdgeDump(w.edges[i])],
     input_edges |-> [i \in DOMAIN w.input_edges |-> EdgeDump(w.input_edges[i])],
     output_edges |-> [i \in DOMAIN w.output_edges |-> EdgeDump(w.output_edges[i])]]

\* Workflow.model_validate_json(payload): each item is validated, then the
\* validators of Workflow run.
ModelValidateJson(payload) ==
    LET nodes == [i \in DOMAIN payload.nodes |-> NodeValidate(payload.nodes[i])]
        w == [nodes |-> [i \in DOMAIN nodes |-> nodes[i].node],
              edges |-> [i \in DOMAIN payload.edges |-> EdgeValidate(payload.edges[i])],
              input_edges |-> [i \in DOMAIN payload.input_edges |->
                                  InputEdgeValidate(payload.input_edges[i])],
              output_edges |-> [i \in DOMAIN payload.output_edges |->
                                   OutputEdgeValidate(payload.output_edges[i])]]
    IN  IF \E i \in DOMAIN nodes : nodes[i].raised # "" THEN Raise("ValidationError", "")
        ELSE IF ~ValidWorkflow(w) THEN Raise("ValidationError", "")
        ELSE Return(w)

(* ------------------- serialization, called ---------------------------- *)

\* The node objects of a workflow: a Strict node has no params, a Lenient
\* node has a suffix.
Concrete(w) ==
    [w EXCEPT !.nodes =
        [i \in DOMAIN w.nodes |->
            NodeObject(w.nodes[i].type \o "Node", w.nodes[i].type, w.nodes[i].id,
                       IF w.nodes[i].type = "Lenient" THEN {<<"suffix", "_append">>}
                       ELSE EMPTY)]]

InitSerialize ==
    /\ workflow \in {Concrete(w) : w \in Hosts}
    /\ pc = "constructed"
    /\ output = EMPTY
    /\ result = Return(NoWorkflow)
    /\ input = EMPTY
    /\ node_outputs = <<>>
    /\ ready_nodes = <<>>
    /\ errors = NoErrors
    /\ cur = NoCur
    /\ call = NoCall
    /\ callResult = NotRun
    /\ exc = NoException
    /\ hooks = NoHooks
    /\ failed = {}
    /\ absorbed = {}
    /\ startRet = Unset
    /\ endRet = Unset
    /\ NoValues

\* workflow_json = workflow.model_dump_json()
Serialize ==
    /\ pc = "constructed"
    /\ output' = ModelDumpJson(workflow)
    /\ pc' = "serialized"
    /\ UNCHANGED <<values, workflow, input, node_outputs, ready_nodes, errors, cur, call,
                   callResult, exc, result, hooks, failed, absorbed, startRet, endRet>>

\* deserialized_workflow = Workflow.model_validate_json(workflow_json)
Deserialize ==
    /\ pc = "serialized"
    /\ result' = ModelValidateJson(output)
    /\ pc' = "deserialized"
    /\ UNCHANGED <<values, workflow, input, node_outputs, ready_nodes, errors, cur, call,
                   callResult, exc, output, hooks, failed, absorbed, startRet, endRet>>

NextSerialize ==
    \/ Serialize
    \/ Deserialize

SpecSerialize == InitSerialize /\ [][NextSerialize]_vars

(* ------------------------- Node._cast_input --------------------------- *)

\* The input types of the node classes called here: those of Strict and
\* Lenient, and an input type with one required integer x that allows
\* extra keys.
CallInputFields(node) ==
    IF node.type = "Extra" THEN {<<"x", TRUE, IntegerValue>>} ELSE InputFields(node)

\* self.input_type.model_config.get("extra", "forbid") == "allow"
AllowExtraInput(node) == node.type = "Extra"

\* The keys of an input in the order of the dict.
InputOrder == <<"x", "y", "z">>

CastInputReturn(obj, st) == [raised |-> "", obj |-> obj, st |-> st]

CastInputRaise(type, st) == [raised |-> type, obj |-> EMPTY, st |-> st]

\* "Validate all inputs first": an undeclared key is skipped when the type
\* allows extras and is a KeyError of input_fields[key] otherwise; a value
\* that cannot be cast to the type of its field raises UserException.
RECURSIVE ValidateInputs(_, _, _, _)
ValidateInputs(node, inp, i, st) ==
    IF i > Len(InputOrder) THEN CastInputReturn(EMPTY, st)
    ELSE LET key == InputOrder[i] IN
         IF key \notin Keys(inp) THEN ValidateInputs(node, inp, i + 1, st)
         ELSE IF key \notin Keys(CallInputFields(node))
         THEN IF AllowExtraInput(node) THEN ValidateInputs(node, inp, i + 1, st)
              ELSE CastInputRaise("KeyError", st)
         ELSE Bind(GetCaster(Get(inp, key).cls, FieldOf(CallInputFields(node), key)[3],
                             casters, st.res), LAMBDA c :
              IF c.raised # "" THEN CastInputRaise(c.raised, [st EXCEPT !.res = c.res])
              ELSE IF c.caster = "None"
              THEN CastInputRaise("UserException", [st EXCEPT !.res = c.res])
              ELSE ValidateInputs(node, inp, i + 1, [st EXCEPT !.res = c.res]))

\* "Cast all inputs in parallel": every declared key is cast to the type of
\* its field, each value through its own cache; a ValidationError of a
\* caster reaches the caller as UserException.
RECURSIVE CastInputs(_, _, _, _, _)
CastInputs(node, inp, i, casted, st) ==
    IF i > Len(InputOrder) THEN CastInputReturn(casted, st)
    ELSE LET key == InputOrder[i] IN
         IF key \notin Keys(inp) \/ key \notin Keys(CallInputFields(node))
         THEN CastInputs(node, inp, i + 1, casted, st)
         ELSE Bind(CastTo(Get(inp, key), key, FieldOf(CallInputFields(node), key)[3], st),
                   LAMBDA r :
              IF r.raised = "ValidationError" THEN CastInputRaise("UserException", r.st)
              ELSE IF r.raised # "" THEN CastInputRaise(r.raised, r.st)
              ELSE CastInputs(node, inp, i + 1, Put(casted, key, r.value), r.st))

\* A variant of ModelValidateInput that asks for no field.
ModelValidateInput_NothingRequired(node, r) == r

\* self.input_type.model_validate(casted_input): every required field must
\* be there.
ModelValidateInput(node, r) ==
    IF \E f \in CallInputFields(node) : f[2] /\ f[1] \notin Keys(r.obj)
    THEN CastInputRaise("UserException", r.st)
    ELSE r

\* Node._cast_input
CastInputOf(node, inp, st) ==
    Bind(ValidateInputs(node, inp, 1, st), LAMBDA checked :
        IF checked.raised # "" THEN checked
        ELSE Bind(CastInputs(node, inp, 1, EMPTY, checked.st), LAMBDA r :
                 IF r.raised # "" THEN r ELSE ModelValidateInput(node, r)))

(* ------------------------- Node.__call__, called ----------------------- *)

\* The inputs of the calls: at most two of the keys x, y and z, each with
\* an integer, a string that reads as an integer, or one that does not.
CallInputValues ==
    {Val(IntegerValue, IntRoot(1)), Val(StringValue, StrRoot("1")),
     Val(StringValue, StrRoot("x"))}

CallInputs ==
    {EMPTY}
    \cup {{<<k, v>>} : k \in Range(InputOrder), v \in CallInputValues}
    \cup {{<<k[1], v>>, <<k[2], w>>} :
            k \in {<<"x", "y">>, <<"x", "z">>, <<"y", "z">>},
            v \in CallInputValues, w \in CallInputValues}

InitNodeCall ==
    /\ cur \in {[id |-> "n", type |-> t] : t \in {"Strict", "Lenient", "Extra"}}
    /\ input \in CallInputs
    /\ pc = "on_node_start"
    /\ call = NoCall
    /\ callResult = NotRun
    /\ exc = NoException
    /\ failed = {}
    /\ casters = [cls \in ValueClasses |-> ImportedCasters(cls)]
    /\ resolved_casters = [cls \in ValueClasses |-> Unresolved]
    /\ cast_cache = [who \in Range(InputOrder) |-> EMPTY]
    /\ caster_calls = 0
    /\ context = NewContext(EMPTY)
    /\ value = NoValue
    /\ workflow = NoWorkflow
    /\ node_outputs = <<>>
    /\ ready_nodes = <<>>
    /\ errors = NoErrors
    /\ output = EMPTY
    /\ result = NoResult
    /\ hooks = NoHooks
    /\ absorbed = {}
    /\ startRet = Unset
    /\ endRet = Unset

\* output = await context.on_node_start(node=self, input=input): None, an
\* output that is returned at once, or an exception.
NodeCallStart ==
    /\ pc = "on_node_start"
    /\ \/ /\ call' = [call EXCEPT !.start = @ + 1]
          /\ pc' = "cast_input"
          /\ UNCHANGED <<callResult, exc, failed>>
       \/ /\ call' = [call EXCEPT !.start = @ + 1, !.memo = TRUE]
          /\ callResult' = MapOutput({<<"o", Val(IntegerValue, IntRoot(1))>>})
          /\ pc' = "returned"
          /\ UNCHANGED <<exc, failed>>
       \/ /\ call' = [call EXCEPT !.start = @ + 1]
          /\ exc' = Exception("HookException", cur.id, "on_node_start")
          /\ failed' = failed \cup {"on_node_start"}
          /\ pc' = "on_node_error"
          /\ UNCHANGED callResult
    /\ UNCHANGED <<values, workflow, input, node_outputs, ready_nodes, errors, cur, output,
                   result, hooks, absorbed, startRet, endRet>>

\* input_obj = await self._cast_input(input, context)
NodeCallCastInput ==
    /\ pc = "cast_input"
    /\ call' = [call EXCEPT !.cast = @ + 1]
    /\ \E r \in {CastInputOf(cur, input,
                             [res |-> resolved_casters, cache |-> cast_cache,
                              ctx |-> context, calls |-> caster_calls])} :
          /\ resolved_casters' = r.st.res
          /\ cast_cache' = r.st.cache
          /\ context' = r.st.ctx
          /\ caster_calls' = r.st.calls
          /\ IF r.raised = ""
             THEN /\ callResult' = [kind |-> "input_obj", map |-> r.obj]
                  /\ pc' = "run"
                  /\ UNCHANGED <<exc, failed>>
             ELSE /\ exc' = Exception(r.raised, cur.id, "cast_input")
                  /\ failed' = failed \cup {"cast_input"}
                  /\ pc' = "on_node_error"
                  /\ UNCHANGED callResult
    /\ UNCHANGED <<casters, value>>
    /\ UNCHANGED <<workflow, input, node_outputs, ready_nodes, errors, cur, output,
                   result, hooks, absorbed, startRet, endRet>>

\* output_obj = await self.run(context, input_obj), on the input object
\* that _cast_input returned.
NodeCallRun ==
    /\ pc = "run"
    /\ call' = [call EXCEPT !.run = @ + 1]
    /\ result' = [result EXCEPT !.output = callResult.map]
    /\ \/ /\ pc' = "on_node_finish"
          /\ UNCHANGED <<exc, failed>>
       \/ /\ exc' = Exception("UserException", cur.id, "run")
          /\ failed' = failed \cup {"run"}
          /\ pc' = "on_node_error"
    /\ UNCHANGED <<values, workflow, input, node_outputs, ready_nodes, errors, cur, output,
                   callResult, hooks, absorbed, startRet, endRet>>

\* output = await context.on_node_finish(...)
NodeCallFinish ==
    /\ pc = "on_node_finish"
    /\ call' = [call EXCEPT !.finish = @ + 1]
    /\ \/ /\ callResult' = MapOutput({<<"o", Val(IntegerValue, IntRoot(1))>>})
          /\ pc' = "returned"
          /\ UNCHANGED <<exc, failed>>
       \/ /\ exc' = Exception("HookException", cur.id, "on_node_finish")
          /\ failed' = failed \cup {"on_node_finish"}
          /\ pc' = "on_node_error"
          /\ UNCHANGED callResult
    /\ UNCHANGED <<values, workflow, input, node_outputs, ready_nodes, errors, cur, output,
                   result, hooks, absorbed, startRet, endRet>>

\* e = await context.on_node_error(node=self, input=input, exception=e):
\* the exception handed to the hook is kept in output; the hook returns it,
\* and NodeException is raised, or returns an output.
NodeCallError ==
    /\ pc = "on_node_error"
    /\ call' = [call EXCEPT !.error = @ + 1]
    /\ output' = {<<"exception", exc>>}
    /\ \/ /\ exc' = Exception("NodeException", cur.id, exc.type)
          /\ pc' = "raised"
          /\ UNCHANGED <<callResult, absorbed>>
       \/ /\ callResult' = MapOutput(EMPTY)
          /\ absorbed' = absorbed \cup {cur.id}
          /\ exc' = NoException
          /\ pc' = "returned"
    /\ UNCHANGED <<values, workflow, input, node_outputs, ready_nodes, errors, cur,
                   result, hooks, failed, startRet, endRet>>

NextNodeCall ==
    \/ NodeCallStart
    \/ NodeCallCastInput
    \/ NodeCallRun
    \/ NodeCallFinish
    \/ NodeCallError

SpecNodeCall == InitNodeCall /\ [][NextNodeCall]_vars

(* ------------------- cast_to under asyncio.gather ---------------------- *)

\* Whether the await of a caster can give up control before the caster
\* returns: the sequence caster awaits a gather of tasks whenever there is
\* an item; a caster that reads or writes through the context suspends or
\* not as the context's read and write do; the others never suspend.
CasterSuspends(caster, v) ==
    CASE caster = "cast_sequence_to_sequence" -> {v.root.items # <<>>}
      [] caster \in {"cast_json_to_integer", "cast_json_to_float", "cast_json_to_string",
                     "cast_any_to_json_file"} -> BOOLEAN
      [] OTHER -> {FALSE}

\* The tasks of one gather: the casts of the fields x and y of a node, both
\* holding the same value instance.
GatherTasks == {"x", "y"}

NoTask == [pc |-> "start", caster |-> "None", invoked |-> FALSE, raised |-> "", value |-> NoValue]

GatherValues ==
    {Val(IntegerValue, IntRoot(1)),
     Val(StringValue, StrRoot("1")),
     Val(JSONFileValue, FileRoot("f.json")),
     Val(SequenceValue(IntegerValue), SeqRoot(<<Val(IntegerValue, IntRoot(1))>>)),
     Val(SequenceValue(IntegerValue), SeqRoot(<<>>))}

GatherTargets ==
    {IntegerValue, FloatValue, StringValue, JSONFileValue, SequenceValue(FloatValue)}

\* cast_tasks of _cast_input, before the gather runs them
InitGather ==
    /\ value \in GatherValues
    /\ cur \in {[t |-> t] : t \in GatherTargets}
    /\ call = [task \in GatherTasks |-> NoTask]
    /\ casters = [cls \in ValueClasses |-> ImportedCasters(cls)]
    /\ resolved_casters = [cls \in ValueClasses |-> Unresolved]
    /\ cast_cache = [who \in Instances |-> EMPTY]
    /\ caster_calls = 0
    /\ context = NewContext({<<"f.json", "1">>})
    /\ pc = "gather"
    /\ result = NoResult
    /\ workflow = NoWorkflow
    /\ input = EMPTY
    /\ node_outputs = <<>>
    /\ ready_nodes = <<>>
    /\ errors = NoErrors
    /\ callResult = NotRun
    /\ exc = NoException
    /\ output = EMPTY
    /\ hooks = NoHooks
    /\ failed = {}
    /\ absorbed = {}
    /\ startRet = Unset
    /\ endRet = Unset

\* The end of cast_to once the caster has returned: the result is cached
\* under the key of the target and returned.
CastToFinish(task, caster, st) ==
    \E r \in {Apply(caster, value, <<>>, cur.t, st)} :
       /\ resolved_casters' = r.st.res
       /\ context' = r.st.ctx
       /\ caster_calls' = r.st.calls
       /\ cast_cache' = IF r.raised = ""
                        THEN [r.st.cache EXCEPT ![<<>>] = Put(@, TypeKey(cur.t), r.value)]
                        ELSE r.st.cache
       /\ call' = [call EXCEPT ![task] = [pc |-> "done", caster |-> caster, invoked |-> TRUE,
                                          raised |-> r.raised, value |-> r.value]]

\* A task runs cast_to from its start to its first suspension: the cached
\* value is returned if there is one; otherwise the caster is looked up and
\* invoked, and the task either waits inside the caster or goes on to the
\* end of cast_to.
CastToEnter(task) ==
    /\ pc = "gather"
    /\ call[task].pc = "start"
    /\ IF TypeKey(cur.t) \in Keys(cast_cache[<<>>])
       THEN /\ call' = [call EXCEPT ![task] =
                           [@ EXCEPT !.pc = "done",
                                     !.value = Get(cast_cache[<<>>], TypeKey(cur.t))]]
            /\ UNCHANGED <<resolved_casters, cast_cache, caster_calls, context>>
       ELSE \E cast_fn \in {GetCaster(value.cls, cur.t, casters, resolved_casters)} :
            IF cast_fn.raised # "" \/ cast_fn.caster = "None"
            THEN /\ call' = [call EXCEPT ![task] =
                                [@ EXCEPT !.pc = "done",
                                          !.raised = IF cast_fn.raised # ""
                                                     THEN cast_fn.raised ELSE "ValueError"]]
                 /\ resolved_casters' = cast_fn.res
                 /\ UNCHANGED <<cast_cache, caster_calls, context>>
            ELSE \E suspends \in CasterSuspends(cast_fn.caster, value) :
                 IF suspends
                 THEN /\ call' = [call EXCEPT ![task] =
                                     [@ EXCEPT !.pc = "awaiting", !.caster = cast_fn.caster,
                                               !.invoked = TRUE]]
                      /\ resolved_casters' = cast_fn.res
                      /\ caster_calls' = caster_calls + 1
                      /\ UNCHANGED <<cast_cache, context>>
                 ELSE CastToFinish(task, cast_fn.caster,
                                   [res |-> cast_fn.res, cache |-> cast_cache,
                                    ctx |-> context, calls |-> caster_calls + 1])
    /\ UNCHANGED <<casters, value>>
    /\ UNCHANGED <<workflow, input, pc, node_outputs, ready_nodes, errors, cur,
                   callResult, exc, output, result, hooks, failed, absorbed, startRet, endRet>>

\* A task that waits inside its caster is resumed: the caster returns and
\* cast_to ends.
CastToResume(task) ==
    /\ pc = "gather"
    /\ call[task].pc = "awaiting"
    /\ CastToFinish(task, call[task].caster,
                    [res |-> resolved_casters, cache |-> cast_cache,
                     ctx |-> context, calls |-> caster_calls])
    /\ UNCHANGED <<casters, value>>
    /\ UNCHANGED <<workflow, input, pc, node_outputs, ready_nodes, errors, cur,
                   callResult, exc, output, result, hooks, failed, absorbed, startRet, endRet>>

\* casted_values = await asyncio.gather(*cast_tasks), every task done
GatherReturn ==
    /\ pc = "gather"
    /\ \A task \in GatherTasks : call[task].pc = "done"
    /\ pc' = "gathered"
    /\ UNCHANGED <<values, workflow, input, node_outputs, ready_nodes, errors, cur, call,
                   callResult, exc, output, result, hooks, failed, absorbed, startRet, endRet>>

NextGather ==
    \/ \E task \in GatherTasks : CastToEnter(task)
    \/ \E task \in GatherTasks : CastToResume(task)
    \/ GatherReturn

SpecGather == InitGather /\ [][NextGather]_vars

(* ------------------- WorkflowExecutor (workflow_engine/workflow.py) --- *)

\* A node and an edge of a workflow definition (types.py).
GraphNode(id, reference_id) == [id |-> id, name |-> id, reference_id |-> reference_id]

GraphEdge(id, source, target, mime_type, target_parameter) ==
    [id |-> id, source_node_id |-> source, target_node_id |-> target,
     mime_type |-> mime_type, target_parameter |-> target_parameter]

\* nx.DiGraph(): the nodes in the order they were added, each with its
\* data, and the edge data by (source, target).
NewDiGraph == [nodes |-> <<>>, edges |-> EMPTY]

GraphIds(g) == {g.nodes[i].id : i \in DOMAIN g.nodes}

\* graph.add_node(node.id, data=node): a node already there keeps its place
\* and takes the new data.
GraphAddNode(g, node) ==
    IF node.id \in GraphIds(g)
    THEN [g EXCEPT !.nodes = [i \in DOMAIN g.nodes |->
                                 IF g.nodes[i].id = node.id THEN node ELSE g.nodes[i]]]
    ELSE [g EXCEPT !.nodes = Append(@, node)]

\* graph.add_edge(source, target, data=edge): one edge per (source,
\* target); an edge already there takes the new data.
GraphAddEdge(g, edge) ==
    [g EXCEPT !.edges = Put(@, <<edge.source_node_id, edge.target_node_id>>, edge)]

RECURSIVE GraphAddNodes(_, _, _)
GraphAddNodes(g, nodes, i) ==
    IF i > Len(nodes) THEN g ELSE GraphAddNodes(GraphAddNode(g, nodes[i]), nodes, i + 1)

RECURSIVE GraphAddEdges(_, _, _)
GraphAddEdges(g, edges, i) ==
    IF i > Len(edges) THEN g ELSE GraphAddEdges(GraphAddEdge(g, edges[i]), edges, i + 1)

\* WorkflowGraph.check_edge_nodes_exist
CheckEdgeNodesExist(data) ==
    \A i \in DOMAIN data.edges :
        /\ data.edges[i].source_node_id \in {data.nodes[j].id : j \in DOMAIN data.nodes}
        /\ data.edges[i].target_node_id \in {data.nodes[j].id : j \in DOMAIN data.nodes}

\* The edge data of the graph, and the edges into a node.
GraphEdges(g) == {p[2] : p \in g.edges}

InEdges(g, node_id) == {e \in GraphEdges(g) : e.target_node_id = node_id}

\* A variant of TopologicalOrders that gives the nodes in any order.
TopologicalOrders_AnyOrder(g) ==
    {order \in [DOMAIN g.nodes -> GraphIds(g)] :
        \A i, j \in DOMAIN order : i # j => order[i] # order[j]}

\* nx.topological_sort(graph): an order of the nodes in which the source
\* of every edge comes before its target; there is none when the graph has
\* a cycle.
TopologicalOrders(g) ==
    {order \in [DOMAIN g.nodes -> GraphIds(g)] :
        /\ \A i, j \in DOMAIN order : i # j => order[i] # order[j]
        /\ \A e \in GraphEdges(g) :
              \E i, j \in DOMAIN order :
                 /\ i < j
                 /\ order[i] = e.source_node_id
                 /\ order[j] = e.target_node_id}

\* nx.is_directed_acyclic_graph(graph)
IsDirectedAcyclicGraph(g) == TopologicalOrders(g) # {}

\* load_workflow: validation, then self.graph is replaced and filled, then
\* the check for cycles.
LoadGraph(graph, data) ==
    LET built == GraphAddEdges(GraphAddNodes(NewDiGraph, data.nodes, 1), data.edges, 1) IN
    IF ~CheckEdgeNodesExist(data) THEN [graph |-> graph, raised |-> "ValueError"]
    ELSE IF ~IsDirectedAcyclicGraph(built) THEN [graph |-> built, raised |-> "ValueError"]
    ELSE [graph |-> built, raised |-> ""]

\* The functions of the registry: the parameters of each, and those
\* without a default.
FunctionParams(reference_id) ==
    CASE reference_id = "produce" -> [all |-> {}, required |-> {}]
      [] reference_id = "transform" -> [all |-> {"x", "y"}, required |-> {"x"}]
      [] OTHER -> [all |-> {"x"}, required |-> {"x"}]

\* A file a node produced, by the node and the mime type.
ExecFile(node_id, mime_type) == [node |-> node_id, mime_type |-> mime_type]

\* node_inputs[param_name].extend(source_files), the list created when the
\* key is new.
ExtendInputs(node_inputs, param_name, source_files) ==
    Put(node_inputs, param_name,
        (IF param_name \in Keys(node_inputs) THEN Get(node_inputs, param_name) ELSE <<>>)
            \o source_files)

\* node_inputs.update(function_config_params)
UpdateInputs(node_inputs, config) ==
    {p \in node_inputs : p[1] \notin Keys(config)} \cup config

\* The calls made to the resolver and to the node functions, in order.
ResolverCall(fn, node_id, arg, target) ==
    [fn |-> fn, node |-> node_id, arg |-> arg, target |-> target]

(* ------------------- WorkflowExecutor, called -------------------------- *)

\* The nodes of the definitions: three nodes, a producer, a transformer
\* and a consumer.
ExecNodes ==
    <<GraphNode("a", "produce"), GraphNode("b", "transform"), GraphNode("c", "consume")>>

\* The edges the definitions choose from, without their ids; the last has
\* a target that is not a node.
ExecEdgeShapes ==
    {<<"a", "b", "text/plain", "x">>,
     <<"a", "b", "application/json", "y">>,
     <<"b", "c", "text/plain", "x">>,
     <<"b", "a", "text/plain", "x">>,
     <<"a", "d", "text/plain", "x">>}

\* The definitions: at most MaxGraphEdges edges, their ids by position.
ExecDefinitions ==
    {[nodes |-> ExecNodes,
      edges |-> [i \in DOMAIN shapes |->
                    GraphEdge(IF i = 1 THEN "e1" ELSE IF i = 2 THEN "e2" ELSE "e3",
                              shapes[i][1], shapes[i][2], shapes[i][3], shapes[i][4])]] :
        shapes \in UNION {[1..n -> ExecEdgeShapes] : n \in 0..MaxGraphEdges}}

\* What get_function_config returns for a node.
ExecConfigs == {EMPTY, {<<"x", "config">>}}

NoExecutorCall == [fn |-> "", raised |-> "", before |-> NewDiGraph, value |-> EMPTY]

NoExecCur == [node_id |-> "", pending |-> {}, node_inputs |-> EMPTY, node_output |-> <<>>]

\* WorkflowExecutor(resolver)
InitExecutor ==
    /\ workflow = NewDiGraph
    /\ input = [nodes |-> <<>>, edges |-> <<>>]
    /\ pc = "idle"
    /\ result = NoExecutorCall
    /\ call = <<>>
    /\ cur = NoExecCur
    /\ ready_nodes = <<>>
    /\ node_outputs = EMPTY
    /\ exc = NoException
    /\ errors = NoErrors
    /\ callResult = NotRun
    /\ output = EMPTY
    /\ hooks = NoHooks
    /\ failed = {}
    /\ absorbed = {}
    /\ startRet = Unset
    /\ endRet = Unset
    /\ NoValues

\* executor.load_workflow(workflow_data)
LoadWorkflow ==
    /\ pc = "idle"
    /\ \E data \in ExecDefinitions :
          LET loaded == LoadGraph(workflow, data) IN
          /\ workflow' = loaded.graph
          /\ input' = IF CheckEdgeNodesExist(data) THEN data ELSE input
          /\ result' = [fn |-> "load_workflow", raised |-> loaded.raised,
                        before |-> workflow, value |-> EMPTY]
    /\ UNCHANGED <<values, pc, node_outputs, ready_nodes, errors, cur, call,
                   callResult, exc, output, hooks, failed, absorbed, startRet, endRet>>

\* execute, up to the loop: the graph must hold a node, and the order of
\* execution is a topological order.
ExecuteStart ==
    /\ pc = "idle"
    /\ IF workflow.nodes = <<>> \/ TopologicalOrders(workflow) = {}
       THEN /\ pc' = "raised"
            /\ exc' = Exception("WorkflowExecutionError", "", "")
            /\ UNCHANGED ready_nodes
       ELSE /\ pc' = "next"
            /\ ready_nodes' \in TopologicalOrders(workflow)
            /\ UNCHANGED exc
    /\ result' = [fn |-> "execute", raised |-> "", before |-> workflow, value |-> EMPTY]
    /\ node_outputs' = EMPTY
    /\ UNCHANGED <<values, workflow, input, errors, cur, call,
                   callResult, output, hooks, failed, absorbed, startRet, endRet>>

\* for node_id in execution_order; after the last node, return
\* workflow_results.
NextExecNode ==
    /\ pc = "next"
    /\ IF ready_nodes = <<>>
       THEN /\ pc' = "returned"
            /\ result' = [result EXCEPT !.value = node_outputs]
            /\ UNCHANGED <<cur, ready_nodes>>
       ELSE /\ pc' = "gather"
            /\ cur' = [node_id |-> Head(ready_nodes),
                       pending |-> InEdges(workflow, Head(ready_nodes)),
                       node_inputs |-> EMPTY, node_output |-> <<>>]
            /\ ready_nodes' = Tail(ready_nodes)
            /\ UNCHANGED result
    /\ UNCHANGED <<values, workflow, input, node_outputs, errors, call,
                   callResult, exc, output, hooks, failed, absorbed, startRet, endRet>>

\* One incoming edge: get_node_files for the source, its files added to
\* the edge's parameter; a failure of the resolver ends the run.
GetNodeFiles ==
    /\ pc = "gather"
    /\ \E edge \in cur.pending : \E ok \in BOOLEAN :
          /\ call' = Append(call, ResolverCall("get_node_files", edge.source_node_id,
                                               edge.mime_type, cur.node_id))
          /\ IF ok
             THEN /\ cur' = [cur EXCEPT
                                !.pending = @ \ {edge},
                                !.node_inputs = ExtendInputs(@, edge.target_parameter,
                                    <<ExecFile(edge.source_node_id, edge.mime_type)>>)]
                  /\ UNCHANGED <<pc, exc>>
             ELSE /\ pc' = "raised"
                  /\ exc' = Exception("WorkflowExecutionError", cur.node_id, "ResolverError")
                  /\ UNCHANGED cur
    /\ UNCHANGED <<values, workflow, input, node_outputs, ready_nodes, errors,
                   callResult, output, result, hooks, failed, absorbed, startRet, endRet>>

\* get_function, get_function_config, and _execute_node: the inputs must
\* hold every required parameter; the function is called with the inputs
\* it takes; a result that is not a list of files counts as no files.
ExecuteNode ==
    /\ pc = "gather"
    /\ cur.pending = {}
    /\ \E found \in BOOLEAN, config \in ExecConfigs,
          outcome \in {"files", "not_files", "raises"} :
          LET node == CHOOSE n \in Range(workflow.nodes) : n.id = cur.node_id
              params == FunctionParams(node.reference_id)
              node_inputs == UpdateInputs(cur.node_inputs, config)
              call_args == {p \in node_inputs : p[1] \in params.all}
          IN  IF ~found
              THEN /\ pc' = "raised"
                   /\ exc' = Exception("ValueError", cur.node_id, "")
                   /\ UNCHANGED <<cur, call>>
              ELSE IF ~(params.required \subseteq Keys(node_inputs))
              THEN /\ pc' = "raised"
                   /\ exc' = Exception("WorkflowExecutionError", cur.node_id, "")
                   /\ cur' = [cur EXCEPT !.node_inputs = node_inputs]
                   /\ UNCHANGED call
              ELSE /\ call' = Append(call, ResolverCall("function", cur.node_id,
                                                        call_args, cur.node_id))
                   /\ IF outcome = "raises"
                      THEN /\ pc' = "raised"
                           /\ exc' = Exception("WorkflowExecutionError", cur.node_id,
                                               "Exception")
                           /\ cur' = [cur EXCEPT !.node_inputs = node_inputs]
                      ELSE /\ pc' = "save"
                           /\ cur' = [cur EXCEPT
                                         !.node_inputs = node_inputs,
                                         !.node_output =
                                             IF outcome = "files"
                                             THEN <<ExecFile(cur.node_id, "text/plain")>>
                                             ELSE <<>>]
                           /\ UNCHANGED exc
    /\ UNCHANGED <<values, workflow, input, node_outputs, ready_nodes, errors,
                   callResult, output, result, hooks, failed, absorbed, startRet, endRet>>

\* save_node_results, and workflow_results[node_id]; a failure of the
\* resolver ends the run.
SaveNodeResults ==
    /\ pc = "save"
    /\ call' = Append(call, ResolverCall("save_node_results", cur.node_id,
                                         cur.node_output, cur.node_id))
    /\ \E ok \in BOOLEAN :
          IF ok
          THEN /\ node_outputs' = Put(node_outputs, cur.node_id, cur.node_output)
               /\ pc' = "next"
               /\ UNCHANGED exc
          ELSE /\ pc' = "raised"
               /\ exc' = Exception("WorkflowExecutionError", cur.node_id, "ResolverError")
               /\ UNCHANGED node_outputs
    /\ UNCHANGED <<values, workflow, input, ready_nodes, errors, cur,
                   callResult, output, result, hooks, failed, absorbed, startRet, endRet>>

NextExecutor ==
    \/ LoadWorkflow
    \/ ExecuteStart
    \/ NextExecNode
    \/ GetNodeFiles
    \/ ExecuteNode
    \/ SaveNodeResults

SpecExecutor == InitExecutor /\ [][NextExecutor]_vars

(* ============================== claims ================================ *)

NodePhases ==
    {"on_node_start", "cast_input", "run", "on_node_finish", "on_node_error", "record"}

NodeHookCount == hooks.on_node_start + hooks.on_node_finish + hooks.on_node_error

WorkflowEndCount == hooks.on_workflow_finish + hooks.on_workflow_error

\* v's inputs depend, through one or more internal edges, on f.
DependsOn(v, f) ==
    v \in Descendants(workflow, Successors(workflow, f), Len(workflow.nodes))

\* C1: if exactly one node fails (its call raises and on_node_error returns
\* the exception), every other node that does not transitively depend on it
\* is still invoked in that run, and its outputs appear in the returned
\* output for every output edge that references them.
\* (Stated for the runs whose on_workflow_error returns its arguments.)
C1_ErrorContainment ==
    (/\ pc = "returned" /\ startRet.kind = "none" /\ Cardinality(failed) = 1
     /\ result = [errors |-> errors, output |-> output]) =>
        \A f \in failed : \A v \in NodeIds(workflow) \ {f} :
            ~DependsOn(v, f) =>
                /\ v \in Finished(node_outputs)
                /\ \A e \in Range(workflow.output_edges) :
                      e.source_id = v => e.output_key \in Keys(result.output)

\* C2: when a node's run returns a Workflow, the Workflow object itself is
\* never recorded in node_outputs as the node's output (the subgraph is
\* spliced in and its output projection is recorded instead).
C2_WorkflowNeverRecorded ==
    \A id \in DOMAIN node_outputs : node_outputs[id].kind # "workflow"

\* C3: in every node invocation, on_node_start is invoked before run, and run
\* is followed by exactly one of on_node_finish and on_node_error, never
\* both and never neither.
C3_ExactlyOneOfFinishError ==
    (pc \in {"record", "except"} /\ call.run = 1) =>
        /\ call.start = 1
        /\ call.finish + call.error = 1

\* C4, the state part: on_workflow_start is invoked exactly once, first; and
\* a run that is not memoized and returns has invoked exactly one of
\* on_workflow_finish and on_workflow_error, exactly once.
C4_StartOnceEndOnce ==
    /\ hooks.on_workflow_start = (IF pc = "on_workflow_start" THEN 0 ELSE 1)
    /\ (NodeHookCount + hooks.run + WorkflowEndCount > 0) => hooks.on_workflow_start = 1
    /\ (pc = "returned" /\ startRet.kind = "none") => WorkflowEndCount = 1

\* C4, the step part: a step that invokes a node hook is taken after
\* on_workflow_start and before either workflow end hook; a step that
\* invokes on_workflow_finish or on_workflow_error is taken with no node
\* call in flight, and no node hook is invoked after it.
C4_NodeHooksBetween ==
    /\ (NodeHookCount' > NodeHookCount) =>
          (hooks.on_workflow_start = 1 /\ WorkflowEndCount = 0 /\ WorkflowEndCount' = 0)
    /\ (WorkflowEndCount' > WorkflowEndCount) =>
          (pc \notin NodePhases /\ NodeHookCount' = NodeHookCount)
    /\ (WorkflowEndCount > 0) => NodeHookCount' = NodeHookCount

\* C4: in every run of execute, on_workflow_start is invoked exactly once
\* and before any on_node_* hook, every on_node_* hook has completed before
\* on_workflow_finish or on_workflow_error is invoked, and a run that is not
\* memoized and returns invokes exactly one of the two, exactly once.
C4_WorkflowHookOrder == [](C4_StartOnceEndOnce) /\ [][C4_NodeHooksBetween]_vars

C4_Witness ==
    /\ pc = "returned"
    /\ startRet.kind = "none"
    /\ hooks.on_node_finish >= 1
    /\ hooks.on_node_error >= 1
    /\ hooks.on_workflow_error = 1

\* C6: if on_workflow_start returns a non-null (errors, output) pair, execute
\* returns exactly that pair and invokes no on_node_start, on_node_finish,
\* on_node_error, no node run, and neither on_workflow_finish nor
\* on_workflow_error.
C6_MemoShortCircuit ==
    (startRet.kind = "pair") =>
        /\ pc = "returned"
        /\ result = startRet.pair
        /\ NodeHookCount = 0
        /\ hooks.run = 0
        /\ WorkflowEndCount = 0

C6_Witness ==
    /\ pc = "returned"
    /\ startRet.kind = "pair"
    /\ AnyErrors(result.errors)

\* The exception that took execute into its except clause came from the
\* strict projection workflow.get_output(node_outputs).
StrictProjectionFailed == exc.type = "UserException" /\ exc.cause = "get_output"

\* get_ready_nodes raised (a subscript of input or of a node output failed).
ReadyNodesRaised == exc.type \in {"KeyError", "TypeError"}

\* on_node_error itself raised, so the node's failure left the call as the
\* hook's exception, not wrapped in a NodeException.
NodeErrorHookRaised == exc.type = "HookException" /\ exc.cause = "on_node_error"

\* C5, what both the claim and its amendment say of the two ways out: with an
\* error recorded, on_workflow_error gets the errors and the partial
\* projection of the node outputs recorded so far, and execute returns the
\* pair the hook returns; with none, on_workflow_finish gets the strict
\* projection and execute returns empty errors with the hook's return value.
C5_TwoWaysOut ==
    /\ (pc = "on_workflow_error") =>
          /\ AnyErrors(errors)
          /\ output = GetOutput(workflow, node_outputs, TRUE).output
    /\ (pc = "returned" /\ endRet.kind = "pair") =>
          /\ hooks.on_workflow_error = 1
          /\ result = endRet.pair
    /\ (pc = "on_workflow_finish") =>
          /\ ~AnyErrors(errors)
          /\ ~GetOutput(workflow, node_outputs, FALSE).raised
          /\ output = GetOutput(workflow, node_outputs, FALSE).output
    /\ (pc = "returned" /\ endRet.kind = "output") =>
          /\ hooks.on_workflow_finish = 1
          /\ result.errors = NoErrors
          /\ result.output = endRet.pair.output

\* C5 as claimed: the above, and the returned errors are non-empty exactly
\* when some node failed unabsorbed or the strict projection could not be
\* computed.
C5_ReturnedErrors ==
    /\ C5_TwoWaysOut
    /\ (pc = "returned" /\ startRet.kind = "none") =>
          (AnyErrors(result.errors) <=> (failed # {} \/ StrictProjectionFailed))

\* C5 as amended: the errors handed to on_workflow_error are non-empty, and
\* that hook is the way out, exactly when an exception left the try block: a
\* node failed unabsorbed, on_node_error raised, get_ready_nodes raised, or
\* the strict projection raised.  The returned errors are the hook's: empty
\* on the on_workflow_finish path, whatever on_workflow_error returns on the
\* other.
C5_ErrorsAmended ==
    /\ C5_TwoWaysOut
    /\ (pc = "returned" /\ startRet.kind = "none") =>
          /\ AnyErrors(errors) <=> (endRet.kind = "pair")
          /\ AnyErrors(errors) <=>
                (failed # {} \/ NodeErrorHookRaised \/ ReadyNodesRaised
                    \/ StrictProjectionFailed)
          /\ result.errors = endRet.pair.errors

C5_Witness ==
    /\ pc = "returned"
    /\ endRet.kind = "pair"
    /\ failed # {}
    /\ result.output # EMPTY
    /\ AnyErrors(result.errors)

\* The output edges whose source node has completed (is in node_outputs).
CompletedOutputEdges ==
    {e \in Range(workflow.output_edges) : e.source_id \in Finished(node_outputs)}

\* The output edges whose source node's recorded output holds the source key.
ResolvableOutputEdges ==
    {e \in CompletedOutputEdges : e.source_key \in Keys(node_outputs[e.source_id].map)}

\* What the claim and its amendment both say of the errors built for a
\* failed node: an entry under exactly the failing node's id, no workflow
\* error, on_node_error invoked exactly once for that node.
FailedNodeErrors(errs) ==
    /\ Keys(errs.node_errors) = failed
    /\ failed = {cur.id}
    /\ errs.workflow_errors = <<>>
    /\ call.error = 1

\* C7 as claimed: when a node's call raises and on_node_error returns an
\* exception, execute does not raise to its caller; it returns errors whose
\* node_errors has an entry under exactly the failing node's id and whose
\* workflow_errors is empty, on_node_error having been invoked exactly once
\* for that node, with an output that contains every output edge whose
\* source node had completed before the failure.
C7_FailureReturned ==
    (failed # {} /\ pc \in {"returned", "raised"}) =>
        /\ pc = "returned"
        /\ FailedNodeErrors(result.errors)
        /\ \A e \in CompletedOutputEdges : e.output_key \in Keys(result.output)

\* C7 as amended: execute hands on_workflow_error errors of that shape, with
\* a partial output holding every output edge whose source node's recorded
\* output contains the source key (with that value); it returns what the hook
\* returns, and raises only if the hook raises.
C7_FailureHandedToHook ==
    (failed # {} /\ pc \in {"on_workflow_error", "returned", "raised"}) =>
        /\ FailedNodeErrors(errors)
        /\ \A e \in ResolvableOutputEdges :
              <<e.output_key, Get(node_outputs[e.source_id].map, e.source_key)>> \in output
        /\ (pc = "returned") => (endRet.kind = "pair" /\ result = endRet.pair)
        /\ (pc = "raised") => (endRet.kind = "raise")

C7_Witness ==
    /\ pc = "returned"
    /\ failed # {}
    /\ FailedNodeErrors(result.errors)
    /\ ResolvableOutputEdges # {}
    /\ result.output # EMPTY

\* Every internal edge into v has a finished source (input edges read the
\* workflow input).
SourcesFinished(v, outs) ==
    \A e \in Range(EdgesByTarget(workflow, v)) :
        IsInputEdge(e) \/ e.source_id \in Finished(outs)

\* Every recorded output holds the source key of each internal edge that
\* leaves its node.
SourceKeysHeld(outs) ==
    \A e \in Range(workflow.edges) :
        e.source_id \in Finished(outs) => e.source_key \in Keys(outs[e.source_id].map)

\* v is in the ready set, its input at each edge from u being u's output.
ReadyFrom(v, u, m, ready) ==
    \E i \in 1..Len(ready) :
        /\ ready[i].id = v
        /\ \A e \in Range(workflow.edges) :
              (e.source_id = u /\ e.target_id = v) =>
                  /\ e.source_key \in Keys(m)
                  /\ <<e.target_key, Get(m, e.source_key)>> \in ready[i].input

NoWorkflowRecorded(outs) == \A id \in DOMAIN outs : outs[id].kind # "workflow"

\* C8 as claimed, the step that records an absorbed error's mapping: the
\* mapping becomes the node's output, no error is added to the run's errors,
\* and the nodes downstream whose sources have all finished become ready
\* from that output.
C8_RecordAbsorbed ==
    (pc = "record" /\ cur.id \in absorbed /\ NoWorkflowRecorded(node_outputs)) =>
        /\ node_outputs'[cur.id] = callResult
        /\ errors' = errors /\ ~AnyErrors(errors')
        /\ \A v \in Successors(workflow, cur.id) :
              SourcesFinished(v, node_outputs') =>
                  ReadyFrom(v, cur.id, callResult.map, ready_nodes')

\* C8 as claimed, the end of the run: with no other failure it ends through
\* on_workflow_finish with empty errors.
C8_EndsThroughFinish ==
    (/\ pc = "returned" /\ startRet.kind = "none" /\ absorbed # {}
     /\ failed = {} /\ ~NodeErrorHookRaised /\ NoWorkflowRecorded(node_outputs)) =>
        /\ hooks.on_workflow_finish = 1 /\ hooks.on_workflow_error = 0
        /\ result.errors = NoErrors

\* C8: when a node's call raises and on_node_error returns a mapping, that
\* mapping is recorded as the node's output, no error is added, nodes
\* downstream of it become ready from that output, and a run with no other
\* failure ends through on_workflow_finish with empty errors.
C8_AbsorbedError == [](C8_EndsThroughFinish) /\ [][C8_RecordAbsorbed]_vars

\* C8 as amended, the step: the mapping is recorded and no error is added;
\* if every recorded output, this mapping included, holds the source key of
\* each edge leaving its node, get_ready_nodes does not raise and the nodes
\* downstream whose sources have all finished become ready from the mapping.
C8_RecordAbsorbedAmended ==
    (pc = "record" /\ cur.id \in absorbed) =>
        /\ node_outputs'[cur.id] = callResult
        /\ errors' = errors /\ ~AnyErrors(errors')
        /\ SourceKeysHeld(node_outputs') =>
              /\ pc' = "loop"
              /\ \A v \in Successors(workflow, cur.id) :
                    SourcesFinished(v, node_outputs') =>
                        ReadyFrom(v, cur.id, callResult.map, ready_nodes')
        /\ ~SourceKeysHeld(node_outputs') =>
              (pc' = "loop" \/ (pc' = "except" /\ exc'.type \in {"KeyError", "TypeError"}))

\* C8 as amended, the end: a run with no other failure in which every
\* recorded output holds the source keys of the edges and output edges
\* leaving its node ends through on_workflow_finish with empty errors.
C8_EndsThroughFinishAmended ==
    (/\ pc = "returned" /\ startRet.kind = "none" /\ absorbed # {}
     /\ failed = {} /\ ~NodeErrorHookRaised
     /\ SourceKeysHeld(node_outputs)
     /\ ResolvableOutputEdges = CompletedOutputEdges) =>
        /\ hooks.on_workflow_finish = 1 /\ hooks.on_workflow_error = 0
        /\ result.errors = NoErrors
        /\ Finished(node_outputs) = NodeIds(workflow)

C8_AbsorbedErrorAmended ==
    [](C8_EndsThroughFinishAmended) /\ [][C8_RecordAbsorbedAmended]_vars

\* An absorbed mapping has been recorded, a node downstream of it has run on
\* it, and the run ended through on_workflow_finish.
C8_Witness ==
    /\ pc = "returned"
    /\ hooks.on_workflow_finish = 1
    /\ result.errors = NoErrors
    /\ \E u \in absorbed : \E v \in Successors(workflow, u) :
          v \in Finished(node_outputs)

\* C9, the call: once on_node_start has returned a mapping the call ends
\* with no cast, no run, no on_node_finish and no on_node_error, and its
\* result is the hook's mapping.
C9_NoCastNoRun ==
    (call.memo /\ pc \in NodePhases \cup {"record"}) =>
        /\ pc = "record"
        /\ call.start = 1 /\ call.cast = 0 /\ call.run = 0
        /\ call.finish = 0 /\ call.error = 0
        /\ callResult.kind = "map"
        /\ callResult.map \in HookMaps(CurNode)

\* C9, the record: the mapping is stored unchanged as the node's output.
C9_RecordedUnchanged ==
    (pc = "record" /\ call.memo) =>
        /\ node_outputs'[cur.id] = callResult
        /\ \A id \in NodeIds(workflow) \ {cur.id} : node_outputs'[id] = node_outputs[id]

\* C9: when on_node_start returns a non-null map the node's input is not
\* cast, run is not called, neither on_node_finish nor on_node_error is
\* invoked, and the map is recorded unchanged as the node's output.
C9_NodeMemoized == [](C9_NoCastNoRun) /\ [][C9_RecordedUnchanged]_vars

\* A memoized node's non-empty mapping has been recorded while another node
\* has really run.
C9_Witness ==
    /\ pc = "loop"
    /\ call.memo
    /\ cur.id \in Finished(node_outputs)
    /\ node_outputs[cur.id].map # EMPTY
    /\ hooks.run >= 1
    /\ hooks.on_node_start = hooks.run + 1

\* C10: a node is called only after every node with an edge into it has
\* finished; its raw input holds, at each edge's target key, the source
\* node's recorded output at the source key or the workflow input at the
\* input key; and the node in flight is the only one, not yet recorded.
C10_EdgeConsistentOrder ==
    (pc \in NodePhases) =>
        /\ cur.id \in NodeIds(workflow)
        /\ cur.id \notin Finished(node_outputs)
        /\ \A i \in 1..Len(ready_nodes) : ready_nodes[i].id # cur.id
        /\ \A e \in Range(EdgesByTarget(workflow, cur.id)) :
              IF IsInputEdge(e)
              THEN /\ e.input_key \in Keys(input)
                   /\ <<e.target_key, Get(input, e.input_key)>> \in cur.input
              ELSE /\ e.source_id \in Finished(node_outputs)
                   /\ node_outputs[e.source_id].kind = "map"
                   /\ e.source_key \in Keys(node_outputs[e.source_id].map)
                   /\ <<e.target_key, Get(node_outputs[e.source_id].map, e.source_key)>>
                          \in cur.input
        /\ Keys(cur.input) = {e.target_key : e \in Range(EdgesByTarget(workflow, cur.id))}

\* A node fed by both another node and the workflow input is being called.
C10_Witness ==
    /\ pc = "run"
    /\ \E e \in Range(EdgesByTarget(workflow, cur.id)) : IsInputEdge(e)
    /\ \E e \in Range(EdgesByTarget(workflow, cur.id)) : ~IsInputEdge(e)
    /\ Keys(cur.input) = {"x", "y"}

\* C12, between two successive calls: node_outputs only grows, and a node
\* that was in the previous ready set (the node popped from it included) and
\* has not finished is in the next ready set, with the same input.
C12_StaysReady ==
    /\ Finished(node_outputs) \subseteq Finished(node_outputs')
    /\ (pc = "record" /\ pc' = "loop") =>
          /\ cur.id \in Finished(node_outputs')
          /\ \A i \in 1..Len(ready_nodes) :
                ready_nodes[i].id \notin Finished(node_outputs')
                    => ready_nodes[i] \in Range(ready_nodes')

\* C12, at every moment of the run: no node that is in node_outputs is in
\* the ready set.
C12_FinishedNeverReady ==
    ReadyIds(ready_nodes) \cap Finished(node_outputs) = {}

\* C12: across the successive get_ready_nodes calls of a run a node that was
\* ready and has not finished stays in the next ready set, and a node that
\* is in node_outputs never appears in that or any later ready set.
C12_ReadySetMonotone == [](C12_FinishedNeverReady) /\ [][C12_StaysReady]_vars

\* One of two nodes that were ready from the start has finished and the
\* other is still in the ready set.
C12_Witness ==
    /\ pc = "loop"
    /\ Finished(node_outputs) # {}
    /\ \E i \in 1..Len(ready_nodes) :
          \A e \in Range(EdgesByTarget(workflow, ready_nodes[i].id)) : IsInputEdge(e)

(* ------------------- LocalContext: the hooks --------------------------- *)

\* The files of a run directory, by their path under it.
WorkflowPath == "workflow.json"

WorkflowInputPath == "input.json"

WorkflowErrorPath == "error.json"

WorkflowOutputPath == "output.json"

GetNodeInputPath(node_id) == "input/" \o node_id \o ".json"

GetNodeOutputPath(node_id) == "output/" \o node_id \o ".json"

\* v.model_dump() of a Value: its root, a plain JSON value.
ValueModelDump(v) == "root(" \o v[1] \o "/" \o v[2] \o "/" \o v[3] \o ")"

RECURSIVE PairsText(_)
PairsText(pairs) ==
    IF pairs = <<>> THEN <<>>
    ELSE <<pairs[1][1], ":", pairs[1][2]>> \o PairsText(Tail(pairs))

\* json.dumps of a dict of plain strings: the text, as a sequence of tokens.
ObjectText(m) == <<"{">> \o PairsText(SetToSeq(m)) \o <<"}">>

\* json.dumps of a list of strings.
ListText(s) == <<"[">> \o s \o <<"]">>

RECURSIVE ListPairsText(_)
ListPairsText(pairs) ==
    IF pairs = <<>> THEN <<>>
    ELSE <<pairs[1][1], ":">> \o ListText(pairs[1][2]) \o ListPairsText(Tail(pairs))

\* json.dumps of errors.model_dump(): the list of workflow errors and the
\* lists of node errors by node id.
ErrorsText(errs) ==
    <<"{", "workflow_errors", ":">> \o ListText(errs.workflow_errors)
        \o <<"node_errors", ":", "{">> \o ListPairsText(SetToSeq(errs.node_errors))
        \o <<"}", "}">>

\* json.dumps of a DataMapping, or of a node's output mapping: a Value is
\* not a type json can serialize, so a mapping that holds one raises
\* TypeError; the empty mapping is written as {}.
JsonDumpsData(m) ==
    IF m = EMPTY THEN [raised |-> "", text |-> ObjectText(EMPTY)]
    ELSE [raised |-> "TypeError", text |-> <<>>]

\* json.dumps({k: v.model_dump() ...}) of the workflow input.
JsonDumpsInput(inp) == ObjectText({<<p[1], ValueModelDump(p[2])>> : p \in inp})

\* json.dumps({"errors": errors.model_dump(), "output": partial_output})
JsonDumpsErrorAndOutput(errs, out) ==
    LET o == JsonDumpsData(out) IN
    IF o.raised # "" THEN o
    ELSE [raised |-> "",
          text |-> <<"{", "errors", ":">> \o ErrorsText(errs)
                       \o <<"output", ":">> \o o.text \o <<"}">>]

\* workflow.model_dump_json(), as one token.
WorkflowText(w) == <<ToString(ModelDumpJson(Concrete(w)))>>

\* The exceptions execute may add to its errors under this context.
LocalErrorTypes == {"TypeError", "UserException", "KeyError", "AssertionError"}

\* The (errors, output) pairs a run directory may hold in error.json.
ErrorDocuments ==
    {[errors |-> AddError(NoErrors, Exception(t, "", "")), output |-> EMPTY] :
        t \in LocalErrorTypes}

\* json.load of output.json and of a node's output file: the mapping whose
\* text the file holds.
JsonLoadData(text) == CHOOSE m \in {EMPTY} : JsonDumpsData(m).text = text

\* json.load of error.json, and WorkflowErrors.model_validate of its
\* "errors": the pair whose text the file holds.
JsonLoadErrorAndOutput(text) ==
    CHOOSE d \in ErrorDocuments : JsonDumpsErrorAndOutput(d.errors, d.output).text = text

\* A LocalContext on a run directory: its files, and, as a record of what
\* went before, the executes begun under this run_id, the input of the
\* first of them, the (errors, output) an earlier execute returned after
\* writing output.json or error.json, and the nodes whose stored output
\* on_node_start has returned.
LocalContext(files) ==
    [files |-> files, executes |-> 0, input |-> EMPTY, recorded |-> Unset, memoized |-> {}]

(* ------------------- execute under LocalContext ------------------------ *)

\* The workflows run under LocalContext: nodes a and b, each Strict or a
\* Sink, with any of the edges that fit them.
LocalNodeLists ==
    { <<[id |-> "a", type |-> t]>> : t \in {"Strict", "Sink"} }
    \cup { <<[id |-> "a", type |-> t], [id |-> "b", type |-> u]>> :
              t \in {"Strict", "Sink"}, u \in {"Strict", "Sink"} }

LocalWorkflows ==
    { w \in UNION { [nodes : {ns},
                     edges : {SetToSeq(E) : E \in SUBSET
                                 {Edge(s.id, "o", t.id, "x") :
                                     s \in {n \in Range(ns) : n.type = "Strict"},
                                     t \in Range(ns)}},
                     input_edges : {SetToSeq(E) : E \in SUBSET
                                 {InputEdge("p", t.id, "x") : t \in Range(ns)}},
                     output_edges : {SetToSeq(E) : E \in SUBSET
                                 {OutputEdge(s.id, "o", OutputKey(s.id)) :
                                     s \in {n \in Range(ns) : n.type = "Strict"}}}]
                    : ns \in LocalNodeLists } :
        ValidWorkflow(w) }

InitLocal ==
    /\ workflow \in LocalWorkflows
    /\ input \in {FullInput, EMPTY}
    /\ context = [LocalContext(EMPTY) EXCEPT !.executes = 1, !.input = input]
    /\ pc = "on_workflow_start"
    /\ node_outputs = [id \in NodeIds(workflow) |-> NotRun]
    /\ ready_nodes = <<>>
    /\ errors = NoErrors
    /\ cur = NoCur
    /\ call = NoCall
    /\ callResult = NotRun
    /\ exc = NoException
    /\ output = EMPTY
    /\ result = NoResult
    /\ hooks = NoHooks
    /\ failed = {}
    /\ absorbed = {}
    /\ startRet = Unset
    /\ endRet = Unset
    /\ casters = <<>>
    /\ resolved_casters = <<>>
    /\ value = <<>>
    /\ cast_cache = <<>>
    /\ caster_calls = 0

\* A variant of LocalOnWorkflowStartReturn that does not look for
\* error.json.
LocalOnWorkflowStartReturn_OutputOnly(files) ==
    IF WorkflowOutputPath \in Keys(files)
    THEN Returned("pair", [errors |-> NoErrors,
                           output |-> JsonLoadData(ReadText(Get(files, WorkflowOutputPath)))])
    ELSE Returned("none", NoResult)

\* What LocalContext.on_workflow_start returns once input.json and
\* workflow.json are written: the pair output.json holds, or else the pair
\* error.json holds, or else None.
LocalOnWorkflowStartReturn(files) ==
    IF WorkflowOutputPath \in Keys(files)
    THEN Returned("pair", [errors |-> NoErrors,
                           output |-> JsonLoadData(ReadText(Get(files, WorkflowOutputPath)))])
    ELSE IF WorkflowErrorPath \in Keys(files)
    THEN Returned("pair", JsonLoadErrorAndOutput(ReadText(Get(files, WorkflowErrorPath))))
    ELSE Returned("none", NoResult)

\* result = await context.on_workflow_start(workflow=workflow, input=input);
\* if result is not None: return result.  The hook writes input.json and
\* workflow.json first; an assertion that fails there leaves execute, which
\* has not entered its try.
LocalOnWorkflowStart ==
    /\ pc = "on_workflow_start"
    /\ hooks' = Count("on_workflow_start")
    /\ \E w1 \in {IdempotentWrite(context.files, WorkflowInputPath, JsonDumpsInput(input))} :
       \E w2 \in {IdempotentWrite(w1.files, WorkflowPath, WorkflowText(workflow))} :
       \E r \in {LocalOnWorkflowStartReturn(w2.files)} :
          /\ context' = [context EXCEPT !.files = w2.files]
          /\ IF w1.raised # "" \/ w2.raised # ""
             THEN /\ startRet' = Returned("raise", NoResult)
                  /\ exc' = Exception("AssertionError", "", "on_workflow_start")
                  /\ pc' = "raised"
                  /\ UNCHANGED result
             ELSE /\ startRet' = r
                  /\ IF r.kind = "pair"
                     THEN /\ result' = r.pair
                          /\ pc' = "returned"
                     ELSE /\ pc' = "get_ready_nodes"
                          /\ UNCHANGED result
                  /\ UNCHANGED exc
    /\ UNCHANGED <<casters, resolved_casters, value, cast_cache, caster_calls>>
    /\ UNCHANGED <<workflow, input, node_outputs, ready_nodes, errors, cur, call, callResult,
                   output, failed, absorbed, endRet>>

\* output = await context.on_node_start(node=self, input=input);
\* if output is not None: return output.  The hook writes the node's input
\* file with json.dumps(input), then loads the node's output file when there
\* is one.
LocalOnNodeStart ==
    /\ pc = "on_node_start"
    /\ hooks' = Count("on_node_start")
    /\ \E d \in {JsonDumpsData(cur.input)} :
       \E w \in {IdempotentWrite(context.files, GetNodeInputPath(cur.id), d.text)} :
          IF d.raised # "" \/ w.raised # ""
          THEN /\ call' = [call EXCEPT !.start = @ + 1]
               /\ exc' = Exception(IF d.raised # "" THEN d.raised ELSE w.raised,
                                   "", "on_node_start")
               /\ pc' = "on_node_error"
               /\ UNCHANGED <<context, callResult>>
          ELSE /\ IF GetNodeOutputPath(cur.id) \in Keys(w.files)
                  THEN /\ context' = [context EXCEPT !.files = w.files,
                                                     !.memoized = @ \cup {cur.id}]
                       /\ call' = [call EXCEPT !.start = @ + 1, !.memo = TRUE]
                       /\ callResult' = MapOutput(JsonLoadData(
                              ReadText(Get(w.files, GetNodeOutputPath(cur.id)))))
                       /\ pc' = "record"
                  ELSE /\ context' = [context EXCEPT !.files = w.files]
                       /\ call' = [call EXCEPT !.start = @ + 1]
                       /\ pc' = "cast_input"
                       /\ UNCHANGED callResult
               /\ UNCHANGED exc
    /\ UNCHANGED <<casters, resolved_casters, value, cast_cache, caster_calls>>
    /\ UNCHANGED <<workflow, input, node_outputs, ready_nodes, errors, cur, output, result,
                   failed, absorbed, startRet, endRet>>

\* output = await context.on_node_finish(node=self, input=input,
\* output=output_obj.to_dict()): the hook writes the node's output file with
\* json.dumps(output) and returns its argument.
LocalOnNodeFinish ==
    /\ pc = "on_node_finish"
    /\ hooks' = Count("on_node_finish")
    /\ call' = [call EXCEPT !.finish = @ + 1]
    /\ \E d \in {JsonDumpsData(callResult.map)} :
       \E w \in {IdempotentWrite(context.files, GetNodeOutputPath(cur.id), d.text)} :
          IF d.raised # "" \/ w.raised # ""
          THEN /\ exc' = Exception(IF d.raised # "" THEN d.raised ELSE w.raised,
                                   "", "on_node_finish")
               /\ callResult' = NotRun
               /\ pc' = "on_node_error"
               /\ UNCHANGED context
          ELSE /\ context' = [context EXCEPT !.files = w.files]
               /\ pc' = "record"
               /\ UNCHANGED <<callResult, exc>>
    /\ UNCHANGED <<casters, resolved_casters, value, cast_cache, caster_calls>>
    /\ UNCHANGED <<workflow, input, node_outputs, ready_nodes, errors, cur, output, result,
                   failed, absorbed, startRet, endRet>>

\* e = await context.on_node_error(node=self, input=input, exception=e):
\* the hook calls json.dumps(exception), which raises TypeError, an
\* exception being no type json can serialize; raised inside the except
\* clause of Node.__call__, the TypeError leaves the call as it is.
LocalOnNodeError ==
    /\ pc = "on_node_error"
    /\ hooks' = Count("on_node_error")
    /\ call' = [call EXCEPT !.error = @ + 1]
    /\ exc' = Exception("TypeError", "", "on_node_error")
    /\ pc' = "except"
    /\ UNCHANGED <<values, workflow, input, node_outputs, ready_nodes, errors, cur,
                   callResult, output, result, failed, absorbed, startRet, endRet>>

\* errors, partial_output = await context.on_workflow_error(...); return
\* errors, partial_output.  The hook writes error.json and returns its
\* arguments; an exception of the hook leaves execute.
LocalOnWorkflowError ==
    /\ pc = "on_workflow_error"
    /\ hooks' = Count("on_workflow_error")
    /\ \E d \in {JsonDumpsErrorAndOutput(errors, output)} :
       \E w \in {IdempotentWrite(context.files, WorkflowErrorPath, d.text)} :
          IF d.raised # "" \/ w.raised # ""
          THEN /\ endRet' = Returned("raise", NoResult)
               /\ exc' = Exception(IF d.raised # "" THEN d.raised ELSE w.raised,
                                   "", "on_workflow_error")
               /\ pc' = "raised"
               /\ UNCHANGED <<context, result>>
          ELSE /\ context' = [context EXCEPT !.files = w.files]
               /\ endRet' = Returned("pair", [errors |-> errors, output |-> output])
               /\ result' = [errors |-> errors, output |-> output]
               /\ pc' = "returned"
               /\ UNCHANGED exc
    /\ UNCHANGED <<casters, resolved_casters, value, cast_cache, caster_calls>>
    /\ UNCHANGED <<workflow, input, node_outputs, ready_nodes, errors, cur, call, callResult,
                   output, failed, absorbed, startRet>>

\* output = await context.on_workflow_finish(...); return errors, output.
\* The hook writes output.json and returns its argument.
LocalOnWorkflowFinish ==
    /\ pc = "on_workflow_finish"
    /\ hooks' = Count("on_workflow_finish")
    /\ \E d \in {JsonDumpsData(output)} :
       \E w \in {IdempotentWrite(context.files, WorkflowOutputPath, d.text)} :
          IF d.raised # "" \/ w.raised # ""
          THEN /\ endRet' = Returned("raise", NoResult)
               /\ exc' = Exception(IF d.raised # "" THEN d.raised ELSE w.raised,
                                   "", "on_workflow_finish")
               /\ pc' = "raised"
               /\ UNCHANGED <<context, result>>
          ELSE /\ context' = [context EXCEPT !.files = w.files]
               /\ endRet' = Returned("output", [errors |-> NoErrors, output |-> output])
               /\ result' = [errors |-> errors, output |-> output]
               /\ pc' = "returned"
               /\ UNCHANGED exc
    /\ UNCHANGED <<casters, resolved_casters, value, cast_cache, caster_calls>>
    /\ UNCHANGED <<workflow, input, node_outputs, ready_nodes, errors, cur, call, callResult,
                   output, failed, absorbed, startRet>>

\* The task that drives execute is cancelled while run is suspended: the
\* hooks of LocalContext await nothing, so run is where a node call waits.
LocalCancel ==
    /\ pc = "run"
    /\ pc' = "cancelled"
    /\ exc' = Exception("CancelledError", cur.id, pc)
    /\ UNCHANGED <<values, workflow, input, node_outputs, ready_nodes, errors, cur, call,
                   callResult, output, result, hooks, failed, absorbed, startRet, endRet>>

\* A later execute under a LocalContext of the same run_id and base_dir,
\* with the same workflow: the run directory is as the execute before left
\* it, everything else starts anew.
ExecuteAgain ==
    /\ pc \in {"returned", "raised", "cancelled"}
    /\ context.executes < MaxExecutes
    /\ context' = [context EXCEPT !.executes = @ + 1,
                                  !.recorded = IF endRet.kind \in {"pair", "output"}
                                               THEN Returned("pair", result) ELSE @]
    /\ input' \in {FullInput, EMPTY}
    /\ pc' = "on_workflow_start"
    /\ node_outputs' = [id \in NodeIds(workflow) |-> NotRun]
    /\ ready_nodes' = <<>>
    /\ errors' = NoErrors
    /\ cur' = NoCur
    /\ call' = NoCall
    /\ callResult' = NotRun
    /\ exc' = NoException
    /\ output' = EMPTY
    /\ result' = NoResult
    /\ hooks' = NoHooks
    /\ failed' = {}
    /\ absorbed' = {}
    /\ startRet' = Unset
    /\ endRet' = Unset
    /\ UNCHANGED <<casters, resolved_casters, value, cast_cache, caster_calls, workflow>>

NextLocal ==
    \/ LocalOnWorkflowStart
    \/ InitialReadyNodes
    \/ PopNode
    \/ LocalOnNodeStart
    \/ CastInput
    \/ Run
    \/ LocalOnNodeFinish
    \/ LocalOnNodeError
    \/ RecordOutput
    \/ StrictOutput
    \/ Except
    \/ LocalOnWorkflowError
    \/ LocalOnWorkflowFinish
    \/ LocalCancel
    \/ ExecuteAgain

SpecLocal == InitLocal /\ [][NextLocal]_vars

(* --------------- claims about get_ready_nodes and get_output ---------- *)

\* An incoming edge whose value is on hand: an input edge whose input_key
\* is in input, or an internal edge whose source is in node_outputs with the
\* source_key in its output.
EdgeSatisfied(e, inp, outs) ==
    IF IsInputEdge(e)
    THEN e.input_key \in Keys(inp)
    ELSE /\ e.source_id \in Finished(outs)
         /\ e.source_key \in Keys(outs[e.source_id].map)

AllEdgesSatisfied(w, id, inp, outs) ==
    \A e \in Range(EdgesByTarget(w, id)) : EdgeSatisfied(e, inp, outs)

GotReadyNodes == pc = "called" /\ result.fn = "get_ready_nodes"

\* C11: for every input, node_outputs and partial_results, get_ready_nodes
\* returns the unfinished entries of partial_results plus exactly the
\* unfinished nodes all of whose incoming edges have their value on hand; a
\* node with an incoming edge whose value is not on hand is not added.
C11_ReadyNodesContract ==
    GotReadyNodes =>
        /\ ~result.ret.raised
        /\ ReadyIds(result.ret.ready) =
              (ReadyIds(ready_nodes) \ Finished(node_outputs))
              \cup {id \in NodeIds(workflow) \ Finished(node_outputs) :
                       AllEdgesSatisfied(workflow, id, input, node_outputs)}

\* Every entry of node_outputs is a complete output of its node.
CompleteOutputs(w, outs) ==
    \A id \in Finished(outs) :
        outs[id].kind = "map"
        /\ Keys(outs[id].map) = Keys(OutputFields(NodeById(w, id)))

InputHasEveryKey(w, inp) == \A e \in Range(w.input_edges) : e.input_key \in Keys(inp)

\* C13: for a constructed workflow, an input holding every input_key of its
\* input edges and node_outputs holding complete outputs of a subset of the
\* nodes, get_ready_nodes returns the empty mapping only if every node of
\* the workflow is in node_outputs.
C13_EmptyOnlyWhenFinished ==
    (GotReadyNodes /\ InputHasEveryKey(workflow, input)
       /\ CompleteOutputs(workflow, node_outputs)) =>
        /\ ~result.ret.raised
        /\ result.ret.ready = <<>> => Finished(node_outputs) = NodeIds(workflow)

\* get_ready_nodes has returned something non-empty for a two-node workflow
\* of which the node finished is not the first in edge order.
C13_Witness ==
    /\ GotReadyNodes /\ InputHasEveryKey(workflow, input)
    /\ CompleteOutputs(workflow, node_outputs)
    /\ ready_nodes = <<>>
    /\ Len(workflow.nodes) = 2
    /\ Cardinality(Finished(node_outputs)) = 1
    /\ \E id \in Finished(node_outputs) : Successors(workflow, id) = {}
    /\ workflow.edges # <<>>
    /\ result.ret.ready # <<>>

\* The entries get_output is to return: one per output edge whose source is
\* in node_outputs with the source key in its output.
ResolvedEntries(w, outs) ==
    { <<e.output_key, Get(outs[e.source_id].map, e.source_key)>> :
         e \in {x \in Range(w.output_edges) :
                    /\ x.source_id \in Finished(outs)
                    /\ x.source_key \in Keys(outs[x.source_id].map)} }

SomeOutputEdgeMissing(w, outs) ==
    \E e \in Range(w.output_edges) :
        \/ e.source_id \notin Finished(outs)
        \/ e.source_key \notin Keys(outs[e.source_id].map)

\* C14: get_output with partial=True never raises and returns exactly the
\* entries of the output edges whose source and source key are in
\* node_outputs; with partial=False it raises UserException if and only if
\* some output edge has its source node or source key missing, and
\* otherwise returns the same mapping.
C14_GetOutputContract ==
    (pc = "called" /\ result.fn = "get_output") =>
        IF result.partial
        THEN /\ ~result.ret.raised
             /\ result.ret.output = ResolvedEntries(workflow, node_outputs)
        ELSE /\ result.ret.raised <=> SomeOutputEdgeMissing(workflow, node_outputs)
             /\ result.ret.raised => result.ret.exc.type = "UserException"
             /\ ~result.ret.raised =>
                   result.ret.output = ResolvedEntries(workflow, node_outputs)

\* Partial mode has returned one entry and left out another whose source
\* key is missing from an output that is there.
C14_Witness ==
    /\ pc = "called" /\ result.fn = "get_output" /\ result.partial
    /\ Cardinality(result.ret.output) = 1
    /\ Len(workflow.output_edges) = 2
    /\ Finished(node_outputs) = NodeIds(workflow)

(* -------------------- claims about Workflow construction -------------- *)

\* C15: every Workflow that constructs successfully has pairwise distinct
\* node ids, a workflow with no internal edges included.
C15_DistinctNodeIds == pc = "constructed" => NodesByIdOk(workflow)

\* C16: every Workflow that constructs successfully contains no two node ids
\* x and y such that y starts with x followed by '/', whatever other node
\* ids the workflow contains.
C16_NoPrefixCollision ==
    pc = "constructed" =>
        \A x, y \in NodeIds(workflow) : ~StartsWithSlash(y, x)

\* The number of edges, internal and input, into a node's key.
InDegree(w, id, key) ==
    Cardinality({i \in 1..Len(ChainEdges(w)) :
                    /\ ChainEdges(w)[i].target_id = id
                    /\ ChainEdges(w)[i].target_key = key})

\* C17: in every Workflow that constructs successfully each required input
\* field of each node is the target of exactly one edge among the internal
\* edges and the input edges.
C17_RequiredInputsFed ==
    pc = "constructed" =>
        \A n \in Range(workflow.nodes) : \A f \in InputFields(n) :
            f[2] => InDegree(workflow, n.id, f[1]) = 1

\* A workflow has been constructed in which two nodes with a required input
\* are fed, one by the workflow input and one by the other node.
C17_Witness ==
    /\ pc = "constructed"
    /\ Cardinality({n \in Range(workflow.nodes) : n.type = "Strict"}) = 2
    /\ Len(workflow.edges) = 1 /\ Len(workflow.input_edges) = 1

\* C18: every Workflow that constructs successfully has at most one incoming
\* edge, internal or input, per target node and target key, whether the
\* field is required or optional.
C18_OneEdgePerTarget ==
    pc = "constructed" =>
        \A id \in NodeIds(workflow) : \A key \in {"x", "y"} :
            InDegree(workflow, id, key) <= 1

\* C20: every Workflow that constructs successfully has an acyclic internal
\* edge relation over its node ids (no self-loop, no directed cycle), and a
\* definition whose edges contain a cycle is rejected.
C20_Acyclic ==
    /\ pc = "constructed" =>
          \A id \in NodeIds(workflow) :
              id \notin Descendants(workflow, Successors(workflow, id),
                                    Cardinality(NodeIds(workflow)))
    /\ (pc # "define"
          /\ \E id \in NodeIds(workflow) :
                id \in Descendants(workflow, Successors(workflow, id),
                                   Cardinality(NodeIds(workflow))))
         => pc = "rejected"

\* A definition that passes every other validator has been rejected for an
\* edge from a node to itself.
C20_Witness ==
    /\ pc = "rejected"
    /\ ValidateNodes(workflow) /\ ValidateEdges(workflow)
    /\ ValidateNoIdPrefixCollisions(workflow)
    /\ \E e \in Range(workflow.edges) : e.source_id = e.target_id

\* The source and target fields of the edge from_nodes was asked for.
EdgeSourceField == FieldOf(OutputFields(workflow.nodes[1]), cur.source_key)

EdgeTargetField == FieldOf(InputFields(workflow.nodes[2]), cur.target_key)

\* C19: an internal edge is rejected unless the source field's type can be
\* cast to the target field's type and, if the target input field is
\* required, the source output field is required; in particular an edge
\* from a sequence of unconstrained items to a sequence of integers is
\* rejected with a type error.
C19_EdgeTypeChecks ==
    /\ pc = "edge_returned" =>
          /\ cur.source_key \in Keys(OutputFields(workflow.nodes[1]))
          /\ cur.target_key \in Keys(InputFields(workflow.nodes[2]))
          /\ CanCastTo(EdgeSourceField[3], EdgeTargetField[3])
          /\ EdgeTargetField[2] => EdgeSourceField[2]
    /\ (/\ pc # "from_nodes"
        /\ workflow.nodes[1].type = "ReadJSONLines" /\ cur.source_key = "o"
        /\ workflow.nodes[2].type = "Sum" /\ cur.target_key = "x")
         => pc = "edge_rejected" /\ exc.type = "TypeError"

(* ------------- claims about expand_node and with_namespace ------------ *)

\* The structural invariants of a workflow: distinct node ids, no id that is
\* another id followed by '/', every required input fed by exactly one edge,
\* at most one edge into any input, no cycle, and every internal edge from
\* a field that exists to a field that exists, castable, and from a required
\* output wherever the input is required.
StructuralInvariants(w) ==
    /\ NodesByIdOk(w)
    /\ \A x, y \in NodeIds(w) : ~StartsWithSlash(y, x)
    /\ \A n \in Range(w.nodes) : \A f \in InputFields(n) :
          /\ f[2] => InDegree(w, n.id, f[1]) = 1
          /\ InDegree(w, n.id, f[1]) <= 1
    /\ \A id \in NodeIds(w) :
          id \notin Descendants(w, Successors(w, id), Cardinality(NodeIds(w)))
    /\ \A e \in Range(w.edges) :
          /\ e.source_id \in NodeIds(w) /\ e.target_id \in NodeIds(w)
          /\ e.source_key \in Keys(OutputFields(NodeById(w, e.source_id)))
          /\ e.target_key \in Keys(InputFields(NodeById(w, e.target_id)))
          /\ CanCastTo(FieldOf(OutputFields(NodeById(w, e.source_id)), e.source_key)[3],
                       FieldOf(InputFields(NodeById(w, e.target_id)), e.target_key)[3])
          /\ FieldOf(InputFields(NodeById(w, e.target_id)), e.target_key)[2]
                => FieldOf(OutputFields(NodeById(w, e.source_id)), e.source_key)[2]

InputKeysOf(w) == {e.input_key : e \in Range(w.input_edges)}

OutputKeysOf(w) == {e.output_key : e \in Range(w.output_edges)}

\* expand_node has returned a workflow.
Expanded == pc = "called" /\ result.fn = "expand_node" /\ ~result.ret.raised

\* expand_node has raised.
ExpandRaised == pc = "called" /\ result.fn = "expand_node" /\ result.ret.raised

\* C21: if W.expand_node(N, S) returns a workflow, that workflow satisfies
\* every structural invariant of a workflow, its input keys are among W's,
\* its output keys are among W's, and it no longer contains N; here for W
\* and S that satisfy the structural invariants themselves.
C21_ExpansionSound ==
    (/\ Expanded
     /\ StructuralInvariants(workflow)
     /\ StructuralInvariants(cur.subgraph))
        => /\ StructuralInvariants(result.ret.workflow)
           /\ InputKeysOf(result.ret.workflow) \subseteq InputKeysOf(workflow)
           /\ OutputKeysOf(result.ret.workflow) \subseteq OutputKeysOf(workflow)
           /\ cur.node_id \notin NodeIds(result.ret.workflow)

\* The node expanded has an internal edge or an output edge out of a source
\* key that no output edge of the subgraph has as its output_key.
UnmatchedOutput ==
    \E e \in Range(workflow.edges) \cup Range(workflow.output_edges) :
        /\ e.source_id = cur.node_id
        /\ e.source_key \notin OutputKeysOf(cur.subgraph)

NamespaceReturned == pc = "called" /\ result.fn = "with_namespace" /\ ~result.ret.raised

\* The id new is the namespace, a '/', and the id old.
IsNamespaced(new, old) == Chars(new) = Chars(cur.node_id) \o <<"/">> \o Chars(old)

\* C23: with_namespace(ns) returns a workflow with the same numbers of nodes
\* and edges in which every node id, every internal edge's source_id and
\* target_id, every input edge's target_id and every output edge's source_id
\* is ns + '/' + the original one, while the keys and the node types are
\* unchanged; the original workflow is not modified.
C23_NamespaceRenames ==
    /\ [](NamespaceReturned =>
            LET old == cur.subgraph
                new == result.ret.workflow
            IN  /\ Len(new.nodes) = Len(old.nodes)
                /\ Len(new.edges) = Len(old.edges)
                /\ Len(new.input_edges) = Len(old.input_edges)
                /\ Len(new.output_edges) = Len(old.output_edges)
                /\ \A i \in DOMAIN old.nodes :
                      /\ IsNamespaced(new.nodes[i].id, old.nodes[i].id)
                      /\ new.nodes[i].type = old.nodes[i].type
                /\ \A i \in DOMAIN old.edges :
                      /\ IsNamespaced(new.edges[i].source_id, old.edges[i].source_id)
                      /\ IsNamespaced(new.edges[i].target_id, old.edges[i].target_id)
                      /\ new.edges[i].source_key = old.edges[i].source_key
                      /\ new.edges[i].target_key = old.edges[i].target_key
                /\ \A i \in DOMAIN old.input_edges :
                      /\ IsNamespaced(new.input_edges[i].target_id, old.input_edges[i].target_id)
                      /\ new.input_edges[i].target_key = old.input_edges[i].target_key
                      /\ new.input_edges[i].input_key = old.input_edges[i].input_key
                /\ \A i \in DOMAIN old.output_edges :
                      /\ IsNamespaced(new.output_edges[i].source_id, old.output_edges[i].source_id)
                      /\ new.output_edges[i].source_key = old.output_edges[i].source_key
                      /\ new.output_edges[i].output_key = old.output_edges[i].output_key)
    /\ [][CallNamespace => cur' = cur]_vars

\* with_namespace has returned the renamed copy of a workflow of two nodes
\* with an internal edge, an input edge and an output edge.
C23_Witness ==
    /\ NamespaceReturned
    /\ Len(cur.subgraph.nodes) = 2 /\ Len(cur.subgraph.edges) = 1
    /\ Len(cur.subgraph.input_edges) >= 1 /\ Len(cur.subgraph.output_edges) >= 1

(* ------------------- claims about the caster registry ----------------- *)

\* The last call registered a caster, or tried to.
Registering(r) == r.fn \in {"register_cast_to", "register_generic_cast_to"}

\* C24: once the caster table of a class C has been resolved, every later
\* register_cast_to or register_generic_cast_to on C or on a Value ancestor
\* of C raises and registers nothing, the resolved table of C stays what it
\* is, and a lookup on C answers from it.
C24_FrozenOnceResolved ==
    /\ [](result.fn = "get_caster" =>
            /\ resolved_casters[result.cls].resolved
            /\ result.t.origin \in Keys(resolved_casters[result.cls].table)
                  => result.caster = Get(resolved_casters[result.cls].table, result.t.origin))
    /\ [][/\ \A c \in ValueClasses :
                resolved_casters[c].resolved => resolved_casters'[c] = resolved_casters[c]
          /\ (/\ Registering(result')
              /\ \E c \in ValueClasses :
                    /\ resolved_casters[c].resolved
                    /\ result'.cls \in Ancestors(c) \cup {c})
                => /\ result'.raised = "RuntimeError"
                   /\ casters' = casters]_vars

\* A registration on GrandValue has raised after the table of BothValue,
\* two levels below, was resolved with a caster of its own in it.
C24_Witness ==
    /\ Registering(result) /\ result.cls = Class("GrandValue")
    /\ result.raised = "RuntimeError"
    /\ resolved_casters[Class("BothValue")].resolved
    /\ "TargetValue" \in Keys(casters[Class("BothValue")])

\* The number of base-class steps from a class up to one of its ancestors.
RECURSIVE Distance(_, _)
Distance(cls, a) ==
    IF cls = a THEN 0
    ELSE LET ds == {Distance(Bases(cls)[i], a) :
                      i \in {j \in DOMAIN Bases(cls) : IsSubclass(Bases(cls)[j], a)}}
         IN  1 + CHOOSE d \in ds : \A e \in ds : d <= e

\* The casters for an origin registered on the class itself or, failing
\* that, on the nearest of its ancestors that registered one.
NearestCasters(cls, origin) ==
    LET holders == {a \in Ancestors(cls) \cup {cls} : origin \in Keys(casters[a])}
    IN  {Get(casters[a], origin) :
            a \in {h \in holders : \A g \in holders : Distance(cls, h) <= Distance(cls, g)}}

\* C26: the resolved table of a class holds, for each target origin, the
\* caster of the nearest ancestor that registered one (the class's own
\* first), whatever the shape of the hierarchy; and registering a second
\* caster for a target origin on one class raises and keeps the first.
C26_NearestAncestorWins ==
    /\ [](\A cls \in UserClasses :
            resolved_casters[cls].resolved =>
                \A origin \in Keys(resolved_casters[cls].table) :
                    Get(resolved_casters[cls].table, origin) \in NearestCasters(cls, origin))
    /\ [][(Registering(result') /\ result'.t.origin \in Keys(casters[result'.cls]))
            => result'.raised # "" /\ casters' = casters]_vars

(* --------------------------- claims about cast_to --------------------- *)

\* Value.__eq__: the roots are compared; an int and a float of the same
\* number are equal, and sequences are equal when their items are.
RECURSIVE RootEq(_, _)
RootEq(a, b) ==
    IF a.kind \in {"int", "float"} /\ b.kind \in {"int", "float"} THEN a.n = b.n
    ELSE IF a.kind # b.kind THEN FALSE
    ELSE IF a.kind = "seq"
    THEN /\ Len(a.items) = Len(b.items)
         /\ \A i \in DOMAIN a.items : RootEq(a.items[i].root, b.items[i].root)
    ELSE a = b

\* C25: for a value whose class is a subtype of the target class, the
\* class itself and classes that inherit a caster towards the target's
\* origin included, cast_to returns a value equal to the value and makes no
\* context read or write.
C25_CastIdentity ==
    [][(result'.fn = "cast_to" /\ IsSubclass(value.cls, result'.t))
          => /\ result'.raised = ""
             /\ RootEq(result'.value.root, value.root)
             /\ context' = context]_vars

\* The entry the value's cache holds for a target.
Cached(cache, t) == Get(cache[<<>>], TypeKey(t))

\* C27: after a cast_to(T) on a value has succeeded, every later cast_to(T)
\* on it returns the cached result without invoking a caster and without a
\* context read or write; the cache is keyed by the full recursive type key,
\* so what a cast returns is of the target asked for, a sequence of floats
\* never answered by the cached sequence of integers.
C27_CastMemoized ==
    /\ [](result.fn = "cast_to" /\ result.raised = "" =>
            /\ TypeKey(result.t) \in Keys(cast_cache[<<>>])
            /\ Cached(cast_cache, result.t) = result.value
            /\ IsSubclass(result.value.cls, result.t))
    /\ [][/\ \A t \in CastTargets :
                TypeKey(t) \in Keys(cast_cache[<<>>]) =>
                    /\ TypeKey(t) \in Keys(cast_cache'[<<>>])
                    /\ Cached(cast_cache', t) = Cached(cast_cache, t)
          /\ (result'.fn = "cast_to" /\ TypeKey(result'.t) \in Keys(cast_cache[<<>>]))
                => /\ result'.raised = ""
                   /\ result'.value = Cached(cast_cache, result'.t)
                   /\ caster_calls' = caster_calls
                   /\ context' = context
                   /\ cast_cache' = cast_cache]_vars

\* A cast of the JSON file to an integer has been answered from the cache,
\* the one read of the file having been made by the cast before it.
C27_Witness ==
    /\ result.fn = "cast_to" /\ result.cached /\ result.t = IntegerValue
    /\ value.cls = JSONFileValue
    /\ context.reads = 1 /\ caster_calls = 1

(* --------------------- claims about _idempotent_write ----------------- *)

\* The calls made so far that wrote to a path, in order.
WritesTo(path) == SelectSeq(result, LAMBDA w : w.path = path)

\* C28: over every sequence of _idempotent_write calls to one path, the
\* content of the file is the data of the first write: a later write with
\* equal data changes nothing, and a later write with different data fails
\* and leaves the file unchanged.
C28_FirstWriteStays ==
    /\ [](\A path \in RunPaths :
            LET ws == WritesTo(path) IN
            ws # <<>> =>
                /\ path \in Keys(context.files)
                /\ Get(context.files, path) = ws[1].data
                /\ ws[1].raised = ""
                /\ \A i \in 2..Len(ws) :
                      /\ ws[i].data = ws[1].data => ws[i].raised = ""
                      /\ ws[i].data # ws[1].data => ws[i].raised = "AssertionError")
    /\ [][\A path \in Keys(context.files) :
             /\ path \in Keys(context'.files)
             /\ Get(context'.files, path) = Get(context.files, path)]_vars

\* One path has been written three times: the first write, then the same
\* data again, then different data, which failed.
C28_Witness ==
    \E path \in RunPaths :
        LET ws == WritesTo(path) IN
        /\ Len(ws) = 3
        /\ ws[2].data = ws[1].data /\ ws[2].raised = ""
        /\ ws[3].data # ws[1].data /\ ws[3].raised = "AssertionError"

(* ------------------------ claims about cancellation ------------------- *)

\* C29: when the task driving execute is cancelled while a node call is in
\* flight, no further node is started once the cancellation is observed,
\* neither on_workflow_finish nor on_workflow_error is invoked, and execute
\* surfaces the cancellation without returning an (errors, output) pair.
C29_CancellationSurfaces ==
    /\ [](exc.type = "CancelledError" =>
            /\ pc = "cancelled"
            /\ hooks.on_workflow_finish = 0
            /\ hooks.on_workflow_error = 0
            /\ endRet = Unset
            /\ result = NoResult)
    /\ [][pc # "cancelled"]_vars

\* The run has been cancelled in the second node call, with the first
\* node's output recorded.
C29_Witness ==
    /\ pc = "cancelled"
    /\ hooks.on_node_start = 2
    /\ Finished(node_outputs) # {}

(* ------------------------ claims about serialization ------------------ *)

\* C30: deserializing the serialization of a workflow that constructed
\* gives a workflow equal to it: each node is an instance of the class
\* registered for its type, with equal id and params, and the edges, input
\* edges and output edges are equal.
C30_SerializationRoundTrip ==
    pc = "deserialized" =>
        /\ ~result.raised
        /\ Len(result.workflow.nodes) = Len(workflow.nodes)
        /\ \A i \in DOMAIN workflow.nodes :
              /\ result.workflow.nodes[i].cls
                    = Get(NodeRegistryTypes, output.nodes[i].type)
              /\ result.workflow.nodes[i] = workflow.nodes[i]
        /\ result.workflow.edges = workflow.edges
        /\ result.workflow.input_edges = workflow.input_edges
        /\ result.workflow.output_edges = workflow.output_edges

\* A workflow of a Strict node and a Lenient node with params, an internal
\* edge, an input edge and an output edge has been through the round trip.
C30_Witness ==
    /\ pc = "deserialized"
    /\ {n.type : n \in Range(workflow.nodes)} = {"Strict", "Lenient"}
    /\ workflow.edges # <<>> /\ workflow.input_edges # <<>> /\ workflow.output_edges # <<>>

(* ------------------------ claims about WorkflowExecutor ---------------- *)

\* The positions in the log of the calls of one kind for one node.
CallsOf(fn, node_id) == {i \in DOMAIN call : call[i].fn = fn /\ call[i].node = node_id}

\* C31: execute processes the loaded graph in a topological order: for
\* every edge from u to v, save_node_results for u has completed before
\* get_node_files is requested for u on behalf of v and before v's
\* function is called; in a run that returns, each node's function is
\* called exactly once and save_node_results exactly once per node.
C31_TopologicalExecution ==
    /\ \A e \in GraphEdges(workflow) : \A i \in DOMAIN call :
          (\/ /\ call[i].fn = "get_node_files"
              /\ call[i].node = e.source_node_id
              /\ call[i].target = e.target_node_id
           \/ /\ call[i].fn = "function"
              /\ call[i].node = e.target_node_id)
          => /\ e.source_node_id \in Keys(node_outputs)
             /\ \E j \in CallsOf("save_node_results", e.source_node_id) : j < i
    /\ pc = "returned" =>
          \A id \in GraphIds(workflow) :
              /\ Cardinality(CallsOf("function", id)) = 1
              /\ Cardinality(CallsOf("save_node_results", id)) = 1

\* A run over the chain a -> b -> c has returned.
C31_Witness ==
    /\ pc = "returned"
    /\ {<<e.source_node_id, e.target_node_id>> : e \in GraphEdges(workflow)}
          = {<<"a", "b">>, <<"b", "c">>}
    /\ Len(call) = 8

\* C32: in a run that returns, get_node_files is called exactly once for
\* every edge of the loaded definition, with that edge's source and mime
\* type, and never for a node without incoming edges; while a node's
\* inputs are gathered, the files of every edge fetched for it are under
\* that edge's target_parameter.  This holds also when several edges of
\* the definition connect the same pair of nodes.
C32_OneFetchPerEdge ==
    /\ pc = "returned" =>
          /\ \A k \in DOMAIN input.edges :
                Cardinality({i \in DOMAIN call :
                                /\ call[i].fn = "get_node_files"
                                /\ call[i].node = input.edges[k].source_node_id
                                /\ call[i].arg = input.edges[k].mime_type
                                /\ call[i].target = input.edges[k].target_node_id})
                  = Cardinality({m \in DOMAIN input.edges :
                                /\ input.edges[m].source_node_id = input.edges[k].source_node_id
                                /\ input.edges[m].mime_type = input.edges[k].mime_type
                                /\ input.edges[m].target_node_id = input.edges[k].target_node_id})
          /\ \A i \in DOMAIN call :
                call[i].fn = "get_node_files" =>
                    \E k \in DOMAIN input.edges :
                        input.edges[k].target_node_id = call[i].target
    /\ pc = "gather" /\ cur.pending = {} =>
          \A k \in DOMAIN input.edges :
              input.edges[k].target_node_id = cur.node_id =>
                  /\ input.edges[k].target_parameter \in Keys(cur.node_inputs)
                  /\ ExecFile(input.edges[k].source_node_id, input.edges[k].mime_type)
                        \in Range(Get(cur.node_inputs, input.edges[k].target_parameter))

\* C39: if load_workflow raises, the executor's graph is the graph it held
\* before the call, and it is never a graph with a cycle.
C39_FailedLoadKeepsGraph ==
    /\ result.fn = "load_workflow" /\ result.raised # "" => workflow = result.before
    /\ workflow.nodes # <<>> => IsDirectedAcyclicGraph(workflow)

(* ------------------------ claims about expand_node, continued ---------- *)

\* C33: if W.expand_node(N, S) succeeds, then for each edge of W (internal
\* or input) into N at target key k: when S has no input edge with
\* input_key k the edge is absent from the result, and otherwise, for every
\* input edge of S with input_key k, the result contains an edge from the
\* same source to that input edge's namespaced target node and target key;
\* every edge of W that does not touch N, and every internal edge of S
\* (namespaced), is present unchanged.
C33_IncomingEdgesRepointed ==
    Expanded =>
        LET r == result.ret.workflow
            N == cur.node_id
            S == cur.subgraph
        IN  /\ \A e \in Range(workflow.edges) :
                  e.target_id = N =>
                      /\ e \notin Range(r.edges)
                      /\ \A s \in Range(S.input_edges) :
                            s.input_key = e.target_key =>
                                Edge(e.source_id, e.source_key,
                                     Namespaced(N, s.target_id), s.target_key)
                                    \in Range(r.edges)
            /\ \A e \in Range(workflow.input_edges) :
                  e.target_id = N =>
                      /\ e \notin Range(r.input_edges)
                      /\ \A s \in Range(S.input_edges) :
                            s.input_key = e.target_key =>
                                InputEdge(e.input_key,
                                          Namespaced(N, s.target_id), s.target_key)
                                    \in Range(r.input_edges)
            /\ \A e \in Range(workflow.edges) :
                  (e.target_id # N /\ e.source_id # N) => e \in Range(r.edges)
            /\ \A e \in Range(workflow.input_edges) :
                  e.target_id # N => e \in Range(r.input_edges)
            /\ \A e \in Range(S.edges) :
                  Edge(Namespaced(N, e.source_id), e.source_key,
                       Namespaced(N, e.target_id), e.target_key) \in Range(r.edges)

(* ------------------------ claims about cancellation, continued --------- *)

\* The cancellation was raised inside on_node_start, the casting of the
\* input, run or on_node_finish.
CancelledInCall ==
    /\ exc.type = "CancelledError"
    /\ exc.cause \in {"on_node_start", "cast_input", "run", "on_node_finish"}

C34_RunAfterCastAndValidation ==
    /\ call.run > 0 =>
          /\ call.start = 1 /\ ~call.memo /\ call.cast = 1
          /\ \A k \in Keys(input) :
                IF k \in Keys(CallInputFields(cur))
                THEN /\ k \in Keys(result.output)
                     /\ IsSubclass(Get(result.output, k).cls,
                                   FieldOf(CallInputFields(cur), k)[3])
                ELSE AllowExtraInput(cur)
          /\ \A f \in CallInputFields(cur) : f[2] => f[1] \in Keys(result.output)
          /\ Keys(result.output) \subseteq Keys(CallInputFields(cur))
    /\ "cast_input" \in failed =>
          /\ call.run = 0
          /\ pc = "on_node_error" \/ call.error = 1
          /\ call.error = 1 => Get(output, "exception").cause = "cast_input"

\* run has been invoked on an input whose string was cast to the integer
\* of its field.
C34_Witness ==
    /\ call.run = 1
    /\ cur.type = "Strict"
    /\ input = {<<"x", Val(StringValue, StrRoot("1"))>>}
    /\ result.output = {<<"x", Val(IntegerValue, IntRoot(1))>>}

(* ------------------------ claims about concurrent casts ---------------- *)

\* C37: for one value instance and one target type, the resolved caster is
\* invoked at most once over the life of the value, also when several
\* cast_to calls on that same instance and target are in flight
\* concurrently; hence concurrent casts never duplicate a context read or
\* write.
C37_CasterInvokedOnce ==
    /\ Cardinality({task \in GatherTasks : call[task].invoked}) <= 1
    /\ context.reads <= 1
    /\ context.writes <= 1

(* ------------------------ claims about LocalContext -------------------- *)

\* The node call in flight is of a node whose output file is there.
NodeOutputStored ==
    /\ pc \in NodeCallAwaits
    /\ GetNodeOutputPath(cur.id) \in Keys(context.files)

\* C36: under LocalContext, once an execute has written output.json or
\* error.json, every later execute with the same run_id, workflow and input
\* returns the recorded (errors, output) from on_workflow_start and calls no
\* node; and a node call that finds the node's output file is at
\* on_node_start, which returns the stored output: the call ends there, and
\* run, on_node_finish and on_node_error are not invoked.
C36_RecordedRunIsNotRepeated ==
    /\ [](context.recorded.kind = "pair" /\ input = context.input
             /\ pc # "on_workflow_start"
          => /\ pc = "returned"
             /\ startRet = context.recorded
             /\ result = context.recorded.pair
             /\ hooks.on_node_start = 0
             /\ hooks.run = 0)
    /\ [][NodeOutputStored
          => /\ pc = "on_node_start"
             /\ pc' = "record"
             /\ call'.memo
             /\ callResult' = MapOutput(JsonLoadData(
                    ReadText(Get(context.files, GetNodeOutputPath(cur.id)))))
             /\ hooks'.run = hooks.run
             /\ hooks'.on_node_finish = hooks.on_node_finish
             /\ hooks'.on_node_error = hooks.on_node_error]_vars

\* A third execute returns the errors the second wrote to error.json, the
\* second having taken the stored output of node b, which the first, then
\* cancelled, had run.
C36_Witness ==
    /\ context.executes = 3
    /\ "b" \in context.memoized
    /\ pc = "returned"
    /\ startRet = context.recorded
    /\ AnyErrors(result.errors)
    /\ hooks.on_node_start = 0

(* ------------------------ claims about termination --------------------- *)

\* C38: for a constructed workflow and an input that holds every input key,
\* when every hook and every run ends, execute ends, returning or raising;
\* and within the run a node that is called has not been called before: it
\* has no recorded output, and the calls made never outnumber the nodes.
C38_ExecuteTerminates ==
    /\ InputHasEveryKey(workflow, input) => <>(pc \in {"returned", "raised"})
    /\ [](hooks.on_node_start <= Len(workflow.nodes))
    /\ [][pc = "loop" /\ pc' = "on_node_start"
          => /\ cur'.id \in NodeIds(workflow)
             /\ cur'.id \notin Finished(node_outputs)
             /\ cur'.id \notin failed \cup absorbed]_vars

\* execute has returned for a workflow of two nodes, each called once.
C38_Witness ==
    /\ InputHasEveryKey(workflow, input)
    /\ pc = "returned"
    /\ Len(workflow.nodes) = 2
    /\ hooks.on_node_start = 2
    /\ Finished(node_outputs) = NodeIds(workflow)

====
